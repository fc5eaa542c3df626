----------------------------- MODULE ChanProofs -----------------------------
(***************************************************************************)
(* Proofs about module Chan: channels among any number of coroutines, with *)
(* any clause lists, buffer sizes and deadlines. The invariant IInv of     *)
(* coroutines and bundles is kept by the channels too; what the channels   *)
(* add to it is ChanInv.                                                   *)
(***************************************************************************)
EXTENDS Chan, CrProofs

\* A call that blocks keeps its clauses until it returns, and only there are
\* clauses and filled buffers; the halves of a channel are freed together.
CallsCoherent ==
  Alive =>
  /\ \A c \in Crs : call[c] # InExt => cls[c] = <<>> /\ buf[c] = NoMsg
  /\ \A c \in Crs : call[c] = InExt => c \in live \ done
  /\ \A c \in Crs : \A i \in DOMAIN cls[c] :
        IF cls[c][i].op = "send" THEN cls[c][i].val \in Msgs ELSE cls[c][i].val = NoMsg
  /\ \A h \in Halves : half[h] = "none" => half[Other(h)] = "none"

\* The message m is offered by clause i of the coroutine c.
Offered(m, c, i) == i \in DOMAIN cls[c] /\ cls[c][i].val = m

\* A message is offered by the one call that sends it, as long as that blocks.
OneSender ==
  Alive => \A m \in Msgs :
  /\ \A c, d \in Crs : \A i \in DOMAIN cls[c], j \in DOMAIN cls[d] :
        Offered(m, c, i) /\ Offered(m, d, j) => c = d /\ i = j
  /\ fate[m] = "pending" <=> \E c \in Crs : \E i \in DOMAIN cls[c] : Offered(m, c, i)

\* The buffers that are filled are those of receivers that have been woken up.
BuffersExact ==
  Alive => \A c \in Crs :
  buf[c] # NoMsg <=> \E i \in DOMAIN cls[c] : cls[c][i].op = "recv" /\ Given(c, i)

Delivered(m) == taken[m] = 1 \/ \E c \in Crs : buf[c] = m

\* There is at most one copy of a message.
OneCopy ==
  Alive => \A m \in Msgs :
  /\ taken[m] \in {0, 1}
  /\ \A c, d \in Crs : buf[c] = m /\ buf[d] = m => c = d
  /\ taken[m] = 1 => \A c \in Crs : buf[c] # m

\* A message was delivered if and only if its sender was told so, or will be
\* when it runs.
SenderKnows ==
  Alive => \A m \in Msgs :
  Delivered(m) <=> \/ fate[m] = "ok"
                   \/ \E c \in Crs : \E i \in DOMAIN cls[c] : Offered(m, c, i) /\ Given(c, i)

\* The lists of clauses.
ListsInv ==
  /\ IInv /\ ChanTypeOK /\ CallsCoherent
  /\ ClausesSound /\ ClausesComplete /\ NobodyLeftBehind /\ NoMissedRendezvous

\* The messages.
MessagesInv == OneSender /\ BuffersExact /\ OneCopy /\ SenderKnows

ChanInv == ListsInv /\ MessagesInv

-----------------------------------------------------------------------------
(***************************************************************************)
(* Half-channels, clauses and lists.                                       *)
(***************************************************************************)

LEMMA HalfFacts ==
  ASSUME NEW h \in Halves
  PROVE  /\ Other(h) \in Halves /\ Other(h) # h /\ Other(Other(h)) = h
         /\ In(h) \in Endpoints /\ Out(h) \in Endpoints
         /\ \A g \in Halves : In(h) # Out(g) /\ (In(h) = In(g) => h = g)
                                /\ (Out(h) = Out(g) => h = g)
         /\ h = <<h[1], 0>> \/ h = <<h[1], 1>>
         /\ h[1] \in Chans
         /\ Other(h) = IF h = <<h[1], 0>> THEN <<h[1], 1>> ELSE <<h[1], 0>>
<1>1. PICK ch \in Chans, s \in {0, 1} : h = <<ch, s>>
  BY DEF Halves
<1>2. Other(h) = <<ch, 1 - s>> /\ h[1] = ch /\ h[2] = s
  BY <1>1 DEF Other
<1>3. 1 - s \in {0, 1} /\ 1 - s # s /\ 1 - (1 - s) = s
  BY <1>1
<1>4. Other(h) \in Halves /\ Other(h) # h /\ Other(Other(h)) = h
  BY <1>1, <1>2, <1>3 DEF Halves, Other
<1>5. In(h) \in Endpoints /\ Out(h) \in Endpoints
  BY ChanAssumption DEF In, Out
<1>6. \A g \in Halves : In(h) # Out(g) /\ (In(h) = In(g) => h = g)
                          /\ (Out(h) = Out(g) => h = g)
  BY DEF In, Out
<1>7. /\ h = <<h[1], 0>> \/ h = <<h[1], 1>>
      /\ h[1] \in Chans
      /\ Other(h) = IF h = <<h[1], 0>> THEN <<h[1], 1>> ELSE <<h[1], 0>>
  BY <1>1, <1>2, <1>3
<1> QED BY <1>4, <1>5, <1>6, <1>7

LEMMA EndpointFacts ==
  ASSUME NEW e \in Endpoints
  PROVE  \E h \in Halves : e = In(h) \/ e = Out(h)
BY ChanAssumption DEF In, Out

LEMMA ClauseFacts ==
  ASSUME NEW k \in Clauses
  PROVE  /\ k.op \in {"send", "recv"} /\ k.h \in Halves /\ k.val \in Msgs \cup {NoMsg}
         /\ Target(k) \in Halves
         /\ PeerList(k) \in Endpoints /\ OwnList(k) \in Endpoints
         /\ k.op = "send" => Target(k) = Other(k.h) /\ PeerList(k) = In(Target(k))
                               /\ OwnList(k) = Out(Target(k))
         /\ k.op = "recv" => Target(k) = k.h /\ PeerList(k) = Out(Target(k))
                               /\ OwnList(k) = In(Target(k))
         /\ \A h \in Halves : /\ OwnList(k) = In(h) => k.op = "recv" /\ Target(k) = h
                              /\ OwnList(k) = Out(h) => k.op = "send" /\ Target(k) = h
<1>1. k.op \in {"send", "recv"} /\ k.h \in Halves /\ k.val \in Msgs \cup {NoMsg}
  BY DEF Clauses
<1>2. CASE k.op = "send"
  <2>1. /\ Target(k) = Other(k.h) /\ PeerList(k) = In(Target(k))
        /\ OwnList(k) = Out(Target(k))
    BY <1>2 DEF Target, PeerList, OwnList
  <2>2. Target(k) \in Halves
    BY <1>1, <2>1, HalfFacts
  <2> QED BY <1>1, <1>2, <2>1, <2>2, HalfFacts
<1>3. CASE k.op = "recv"
  <2>1. /\ Target(k) = k.h /\ PeerList(k) = Out(Target(k))
        /\ OwnList(k) = In(Target(k))
    BY <1>3 DEF Target, PeerList, OwnList
  <2> QED BY <1>1, <1>3, <2>1, HalfFacts
<1> QED BY <1>1, <1>2, <1>3

\* The clauses of a blocked coroutine, by position.
LEMMA ClsFacts ==
  ASSUME ChanTypeOK, NEW c \in Crs
  PROVE  /\ cls[c] \in Seq(Clauses) /\ Len(cls[c]) \in Nat
         /\ DOMAIN cls[c] = 1..Len(cls[c])
         /\ \A i \in DOMAIN cls[c] : cls[c][i] \in Clauses /\ i \in Nat \ {0}
<1>1. cls[c] \in Seq(Clauses)
  BY DEF ChanTypeOK
<1> DEFINE q == cls[c]
<1>2. q \in Seq(Clauses)
  BY <1>1
<1> HIDE DEF q
<1>3. /\ Len(q) \in Nat /\ DOMAIN q = 1..Len(q)
      /\ \A i \in DOMAIN q : q[i] \in Clauses /\ i \in Nat \ {0}
  BY <1>2
<1> QED BY <1>1, <1>3 DEF q

\* A coroutine in a list has a clause that belongs there; the first is meant.
LEMMA ClauseInFacts ==
  ASSUME ChanTypeOK, NEW d \in Crs, NEW e,
         \E i \in DOMAIN cls[d] : OwnList(cls[d][i]) = e
  PROVE  ClauseIn(d, e) \in DOMAIN cls[d] /\ OwnList(cls[d][ClauseIn(d, e)]) = e
<1> DEFINE T == {i \in DOMAIN cls[d] : OwnList(cls[d][i]) = e}
<1>1. T \subseteq Nat /\ T # {} /\ DOMAIN cls[d] = 1..Len(cls[d]) /\ Len(cls[d]) \in Nat
  BY ClsFacts
<1>2. PICK n \in T : \A i \in T : n <= i
  BY <1>1, NatMin
<1>3. \A j \in 1..(n - 1) : OwnList(cls[d][j]) # e
  BY <1>1, <1>2
<1>4. \E i \in DOMAIN cls[d] : /\ OwnList(cls[d][i]) = e
                               /\ \A j \in 1..(i - 1) : OwnList(cls[d][j]) # e
  BY <1>2, <1>3
<1> QED BY <1>4 DEF ClauseIn

-----------------------------------------------------------------------------
(***************************************************************************)
(* What the steps of coroutines and bundles mean to blocked channel calls. *)
(***************************************************************************)

\* Who has a clause in a list is in a channel call, and not running.
LEMMA Linked ==
  ASSUME ListsInv, Alive, NEW e \in Endpoints, NEW x \in Range(wq[e])
  PROVE  /\ x \in Crs /\ call[x] = InExt /\ Suspended(x) /\ x \in live \ done
         /\ x # r /\ x \notin Range(ready)
         /\ \E i \in DOMAIN cls[x] : OwnList(cls[x][i]) = e
<1>1. wq[e] \in Seq(Crs)
  BY DEF ListsInv, ChanTypeOK, TypeOK
<1>2. x \in Crs
  BY <1>1, RangeDef
<1> QED BY <1>2 DEF ListsInv, ClausesSound, Suspended

\* The clauses of channel calls are such clauses.
LEMMA ListsExtSound == ListsInv /\ Alive => ExtSound
<1> SUFFICES ASSUME ListsInv, Alive PROVE ExtSound
  OBVIOUS
<1>1. \A e \in Endpoints : \A x \in Range(wq[e]) : call[x] = InExt /\ Suspended(x)
  BY Linked
<1> QED BY <1>1 DEF ListsInv, CallsCoherent, ExtSound

\* When an assertion has failed nothing is promised but the types.
LEMMA DeadChanInv ==
  ASSUME IInv', ChanTypeOK', ~Alive' PROVE ChanInv'
BY DEF ChanInv, ListsInv, MessagesInv, CallsCoherent, ClausesSound, ClausesComplete,
       NobodyLeftBehind, NoMissedRendezvous, OneSender, BuffersExact, OneCopy, SenderKnows

\* Steps outside of the channels keep the lists exact.
LEMMA QuietLists ==
  ASSUME ListsInv, Alive, Alive', CrKeeps, UNCHANGED chanVars, IInv'
  PROVE  ListsInv'
<1>1. UNCHANGED <<half, chdone, cls, buf, fate, taken>>
  BY DEF chanVars
<1>2. ChanTypeOK'
  BY <1>1 DEF ListsInv, ChanTypeOK, IInv
<1>3. CallsCoherent'
  BY <1>1 DEF ListsInv, CallsCoherent, CrKeeps
<1>4. ClausesSound'
  <2> SUFFICES ASSUME NEW e \in Endpoints
               PROVE  /\ NoDup(wq'[e])
                      /\ \A c \in Range(wq'[e]) :
                           /\ Suspended(c)' /\ call'[c] = InExt /\ c \in live' \ done'
                           /\ \E i \in DOMAIN cls'[c] : OwnList(cls'[c][i]) = e
    BY DEF ClausesSound
  <2>1. NoDup(wq'[e])
    BY DEF ListsInv, ClausesSound, CrKeeps
  <2>2. ASSUME NEW c \in Range(wq'[e])
        PROVE  /\ Suspended(c)' /\ call'[c] = InExt /\ c \in live' \ done'
               /\ \E i \in DOMAIN cls'[c] : OwnList(cls'[c][i]) = e
    <3>1. c \in Range(wq[e])
      BY DEF CrKeeps
    <3>2. c \in Crs /\ call[c] = InExt /\ \E i \in DOMAIN cls[c] : OwnList(cls[c][i]) = e
      BY <3>1, Linked
    <3> QED BY <1>1, <3>2 DEF CrKeeps
  <2> QED BY <2>1, <2>2
<1>5. ClausesComplete'
  <2> SUFFICES ASSUME NEW c \in Crs, call'[c] = InExt, Suspended(c)', NEW i \in DOMAIN cls'[c]
               PROVE  c \in Range(wq'[OwnList(cls'[c][i])])
    BY DEF ClausesComplete
  <2>1. OwnList(cls[c][i]) \in Endpoints /\ i \in DOMAIN cls[c]
    BY <1>1, ClsFacts, ClauseFacts DEF ListsInv
  <2>2. call[c] = InExt /\ Suspended(c)
    BY DEF CrKeeps
  <2>3. c \in Range(wq[OwnList(cls[c][i])])
    BY <2>1, <2>2 DEF ListsInv, ClausesComplete
  <2> QED BY <1>1, <2>1, <2>2, <2>3 DEF CrKeeps
<1>6. NobodyLeftBehind'
  <2> SUFFICES ASSUME NEW h \in Halves, h \in chdone \/ half[h] = "none"
               PROVE  wq'[In(h)] = <<>> /\ wq'[Out(h)] = <<>>
    BY <1>1 DEF NobodyLeftBehind
  <2>1. /\ wq[In(h)] = <<>> /\ wq[Out(h)] = <<>>
        /\ In(h) \in Endpoints /\ Out(h) \in Endpoints
    BY HalfFacts DEF ListsInv, NobodyLeftBehind
  <2>2. \A e \in Endpoints : wq[e] \in Seq(Crs) /\ wq'[e] \in Seq(Crs)
    BY <1>2 DEF ListsInv, ChanTypeOK, TypeOK
  <2>3. \A e \in Endpoints : wq[e] = <<>> => wq'[e] = <<>>
    <3> SUFFICES ASSUME NEW e \in Endpoints, wq[e] = <<>> PROVE wq'[e] = <<>>
      OBVIOUS
    <3>1. Range(wq'[e]) \subseteq Range(wq[e])
      BY DEF CrKeeps
    <3>2. /\ wq[e] = <<>> <=> Range(wq[e]) = {}
          /\ wq'[e] = <<>> <=> Range(wq'[e]) = {}
      BY <2>2, RangeDef
    <3> QED BY <3>1, <3>2
  <2> QED BY <2>1, <2>3
<1>7. NoMissedRendezvous'
  BY HalfFacts DEF ListsInv, NoMissedRendezvous, CrKeeps
<1> QED BY <1>2, <1>3, <1>4, <1>5, <1>6, <1>7 DEF ListsInv

\* A step that leaves the books alone and brings no good news to anybody in a
\* channel call.
LEMMA SameMessages ==
  ASSUME MessagesInv, Alive, UNCHANGED <<cls, buf, fate, taken>>,
         \A c \in Crs : \A i \in DOMAIN cls[c] : (Given(c, i)' <=> Given(c, i))
  PROVE  MessagesInv'
<1>1. \A m, c, i : Offered(m, c, i)' <=> Offered(m, c, i)
  BY DEF Offered
<1>2. \A m : Delivered(m)' <=> Delivered(m)
  BY DEF Delivered
<1>3. OneSender'
  BY <1>1 DEF MessagesInv, OneSender
<1>4. BuffersExact'
  BY DEF MessagesInv, BuffersExact
<1>5. OneCopy'
  BY DEF MessagesInv, OneCopy
<1>6. SenderKnows'
  BY <1>1, <1>2 DEF MessagesInv, SenderKnows
<1> QED BY <1>3, <1>4, <1>5, <1>6 DEF MessagesInv

\* Steps outside of the channels deliver no message.
LEMMA QuietMessages ==
  ASSUME ChanInv, Alive, Alive', CrKeeps, UNCHANGED chanVars
  PROVE  MessagesInv'
<1>1. UNCHANGED <<cls, buf, fate, taken>>
  BY DEF chanVars
<1>2. \A c \in Crs : \A i \in DOMAIN cls[c] : (Given(c, i)' <=> Given(c, i))
  <2> SUFFICES ASSUME NEW c \in Crs, NEW i \in DOMAIN cls[c] PROVE Given(c, i)' <=> Given(c, i)
    OBVIOUS
  <2>1. call[c] = InExt
    BY DEF ChanInv, ListsInv, CallsCoherent
  <2>2. i \in Int
    BY ClsFacts DEF ChanInv, ListsInv
  <2> QED BY <2>1, <2>2 DEF CrKeeps
<1> QED BY <1>1, <1>2, SameMessages DEF ChanInv

LEMMA CrNextChanInv ==
  ASSUME ChanInv, Next \/ UNCHANGED vars, UNCHANGED chanVars
  PROVE  ChanInv'
<1>1. IInv'
  BY NextIInv DEF ChanInv, ListsInv
<1>2. ChanTypeOK'
  BY <1>1 DEF ChanInv, ListsInv, ChanTypeOK, IInv, chanVars
<1>3. CASE ~Alive'
  BY <1>1, <1>2, <1>3, DeadChanInv
<1>4. CASE Alive' /\ UNCHANGED vars
  <2>1. /\ Alive /\ UNCHANGED <<r, ret, ready, res, wq, call, live, done>>
        /\ \A x \in Crs : call[x] = InExt => x \in live \ done
    BY <1>4 DEF vars, schedVars, crVars, Alive, ChanInv, ListsInv, CallsCoherent
  <2>2. \A e \in Endpoints : \A x \in Range(wq[e]) : Suspended(x)
    BY <2>1, Linked DEF ChanInv
  <2>3. CrKeeps
    BY <2>1, <2>2 DEF CrKeeps, Suspended, Given
  <2> QED BY <1>1, <1>4, <2>1, <2>3, QuietLists, QuietMessages DEF ChanInv
<1>5. CASE Alive' /\ Next
  <2>1. CASE Kernel
    <3>1. Alive
      BY <1>5, <2>1 DEF Kernel, RunReady, PollAndRun, Tick, Crashed, Alive, schedVars
    <3>2. CrKeeps
      BY <1>5, <2>1, <3>1, ListsExtSound, KernelKeeps DEF ChanInv
    <3> QED BY <1>1, <1>5, <3>1, <3>2, QuietLists, QuietMessages DEF ChanInv
  <2>2. ASSUME NEW c \in Crs, UserStep(c) PROVE ChanInv'
    <3>1. Alive
      BY <2>2 DEF UserStep, Bundle, Go, BundleGo, Yield, Msleep, BundleWait,
         BundleWaitReturn, Hclose, HcloseResume, Return, User, Running
    <3>2. CrKeeps
      BY <1>5, <2>2, <3>1, ListsExtSound, UserStepKeeps DEF ChanInv
    <3> QED BY <1>1, <1>5, <3>1, <3>2, QuietLists, QuietMessages DEF ChanInv
  <2> QED BY <1>5, <2>1, <2>2 DEF Next
<1> QED BY <1>3, <1>4, <1>5

-----------------------------------------------------------------------------
(***************************************************************************)
(* The clauses of a new call.                                              *)
(***************************************************************************)

\* The call offers messages that were never offered before, each once.
FreshClauses(cl) ==
  /\ cl \in Seq(Clauses)
  /\ \A i \in DOMAIN cl : IF cl[i].op = "send"
                          THEN cl[i].val \in Msgs /\ fate[cl[i].val] = "unsent"
                          ELSE cl[i].val = NoMsg
  /\ \A i, j \in DOMAIN cl : cl[i].op = "send" /\ cl[i].val = cl[j].val => i = j

LEMMA OfferFacts ==
  ASSUME NEW menu \in Seq(Shapes), NEW cl \in Offers(menu)
  PROVE  FreshClauses(cl)
<1>1. DOMAIN menu = 1..Len(menu) /\ Len(menu) \in Nat
        /\ \A i \in DOMAIN menu : menu[i] \in Shapes
  OBVIOUS
<1>2. PICK v \in [DOMAIN menu -> Msgs \cup {NoMsg}] :
        /\ cl = [i \in DOMAIN menu |->
                   [op |-> menu[i].op, h |-> menu[i].h, len |-> menu[i].len, val |-> v[i]]]
        /\ \A i \in DOMAIN menu :
              IF menu[i].op = "send" THEN v[i] \in Msgs /\ fate[v[i]] = "unsent"
              ELSE v[i] = NoMsg
        /\ \A i, j \in DOMAIN menu : v[i] = v[j] => i = j \/ menu[i].op = "recv"
  BY DEF Offers
<1>3. DOMAIN cl = 1..Len(menu)
        /\ \A i \in DOMAIN cl : /\ cl[i] \in Clauses
                                /\ cl[i].op = menu[i].op /\ cl[i].val = v[i]
  BY <1>1, <1>2 DEF Clauses, Shapes
<1>4. cl \in Seq(Clauses)
  <2>1. cl \in [1..Len(menu) -> Clauses]
    BY <1>1, <1>2, <1>3
  <2> QED BY <1>1, <2>1
<1>5. \A i \in DOMAIN cl : cl[i].op = "send" => cl[i].op # "recv"
  OBVIOUS
<1> QED BY <1>1, <1>2, <1>3, <1>4, <1>5 DEF FreshClauses

LEMMA FreshFacts ==
  ASSUME NEW cl, FreshClauses(cl)
  PROVE  /\ cl \in Seq(Clauses) /\ Len(cl) \in Nat /\ DOMAIN cl = 1..Len(cl)
         /\ \A i \in DOMAIN cl : cl[i] \in Clauses /\ i \in Nat \ {0}
                                   /\ OwnList(cl[i]) \in Endpoints
<1>1. cl \in Seq(Clauses)
  BY DEF FreshClauses
<1>2. /\ Len(cl) \in Nat /\ DOMAIN cl = 1..Len(cl)
      /\ \A i \in DOMAIN cl : cl[i] \in Clauses /\ i \in Nat \ {0}
  BY <1>1
<1> QED BY <1>1, <1>2, ClauseFacts

\* The first clause that is decided.
LEMMA FirstDecidedFacts ==
  ASSUME NEW cl, FreshClauses(cl), \E i \in DOMAIN cl : Decided(cl[i])
  PROVE  FirstDecided(cl) \in DOMAIN cl /\ Decided(cl[FirstDecided(cl)])
<1> DEFINE T == {i \in DOMAIN cl : Decided(cl[i])}
<1>1. T \subseteq Nat /\ T # {} /\ DOMAIN cl = 1..Len(cl) /\ Len(cl) \in Nat
  BY FreshFacts
<1>2. PICK n \in T : \A i \in T : n <= i
  BY <1>1, NatMin
<1>3. \A j \in 1..(n - 1) : ~Decided(cl[j])
  BY <1>1, <1>2
<1>4. \E i \in DOMAIN cl : Decided(cl[i]) /\ \A j \in 1..(i - 1) : ~Decided(cl[j])
  BY <1>2, <1>3
<1> QED BY <1>4 DEF FirstDecided

\* The books about messages stay books about messages.
LEMMA BookTypes ==
  ASSUME ChanTypeOK, NEW cl, NEW i, NEW v
  PROVE  /\ Settle(cl, i) \in [Msgs -> {"unsent", "pending", "ok", "failed"}]
         /\ Take(cl, i, v) \in [Msgs -> Nat]
<1>1. /\ fate \in [Msgs -> {"unsent", "pending", "ok", "failed"}]
      /\ taken \in [Msgs -> Nat]
  BY DEF ChanTypeOK
<1>2. Settle(cl, i) \in [Msgs -> {"unsent", "pending", "ok", "failed"}]
  <2>1. \A m \in Msgs : fate[m] \in {"unsent", "pending", "ok", "failed"}
    BY <1>1
  <2> QED BY <2>1, Zenon DEF Settle
<1>3. [taken EXCEPT ![v] = @ + 1] \in [Msgs -> Nat]
  <2>1. \A n \in Nat : n + 1 \in Nat
    OBVIOUS
  <2>2. DOMAIN [taken EXCEPT ![v] = @ + 1] = Msgs
    BY <1>1
  <2>3. CASE v \in Msgs
    BY <1>1, <2>3
  <2>4. CASE v \notin Msgs
    BY <1>1, <2>4
  <2> QED BY <2>3, <2>4
<1> QED BY <1>1, <1>2, <1>3 DEF Take

-----------------------------------------------------------------------------
(***************************************************************************)
(* Waking up blocked channel calls: a rendezvous, chdone() and hclose().   *)
(***************************************************************************)

\* dill_trigger for the coroutines of q.
Triggers(q, f) ==
  /\ q \in Seq(Crs) /\ NoDup(q) /\ f \in [Crs -> Results] /\ DoCancel(q, f)
  /\ \A x \in Range(q) : \E e \in Endpoints : x \in Range(wq[e])
  /\ UNCHANGED <<r, ret, nb1, now, lastPoll, crVars>>

LEMMA TriggerFacts ==
  ASSUME ListsInv, Alive, NEW q, NEW f, Triggers(q, f)
  PROVE  /\ Alive' /\ abort' = abort
         /\ \A x \in Range(q) : /\ x \in Crs /\ Suspended(x) /\ call[x] = InExt
                                /\ x \in live \ done
         /\ ready' \in Seq(Crs) /\ Range(ready') = Range(ready) \cup Range(q)
         /\ NoDup(ready) => NoDup(ready')
         /\ timers' \in Seq(Crs) /\ Range(timers') = Range(timers) \ Range(q)
         /\ NoDup(timers) => NoDup(timers')
         /\ res' \in [Crs -> Results] /\ tm' \in [Crs -> [at : Nat, id : Nat]]
         /\ wq' \in [Endpoints -> Seq(Crs)]
         /\ \A x \in Crs : res'[x] = IF x \in Range(q) THEN f[x] ELSE res[x]
         /\ \A e \in Endpoints : /\ Range(wq'[e]) = Range(wq[e]) \ Range(q)
                                 /\ NoDup(wq[e]) => NoDup(wq'[e])
         /\ \A x \in Crs : Suspended(x)' <=> Suspended(x) /\ x \notin Range(q)
<1>1. TypeOK /\ q \in Seq(Crs) /\ NoDup(q) /\ f \in [Crs -> Results] /\ DoCancel(q, f)
        /\ r' = r
  BY DEF ListsInv, IInv, Triggers
<1>2. \A x \in Range(q) : /\ x \in Crs /\ Suspended(x) /\ call[x] = InExt
                          /\ x \in live \ done /\ x \notin Range(ready)
  BY Linked DEF Triggers
<1>3. abort' = abort /\ Alive'
  BY <1>1, <1>2 DEF DoCancel, Alive
<1>4. abort' # "docancel"
  BY <1>3 DEF Alive
<1>5. /\ ready' \in Seq(Crs)
      /\ res' \in [Crs -> Results]
      /\ timers' \in Seq(Crs)
      /\ tm' \in [Crs -> [at : Nat, id : Nat]]
      /\ wq' \in [Endpoints -> Seq(Crs)]
      /\ Range(ready') = Range(ready) \cup Range(q)
      /\ NoDup(ready) => NoDup(ready')
      /\ Range(timers') = Range(timers) \ Range(q)
      /\ NoDup(timers) => NoDup(timers')
      /\ \A x \in Crs : res'[x] = IF x \in Range(q) THEN f[x] ELSE res[x]
  BY <1>1, <1>4, DoCancelFacts
<1>6. \A e \in Endpoints : /\ Range(wq'[e]) = Range(wq[e]) \ Range(q)
                           /\ NoDup(wq[e]) => NoDup(wq'[e])
  BY <1>1, <1>3, DoCancelLists
<1>7. \A x \in Crs : Suspended(x)' <=> Suspended(x) /\ x \notin Range(q)
  BY <1>1, <1>5 DEF Suspended
<1> QED BY <1>2, <1>3, <1>5, <1>6, <1>7

LEMMA TriggerIInv ==
  ASSUME ListsInv, Alive, NEW q, NEW f, Triggers(q, f) PROVE IInv'
<1>1. /\ Alive' /\ abort' = abort
      /\ \A x \in Range(q) : x \in Crs /\ Suspended(x) /\ call[x] = InExt /\ x \in live \ done
      /\ ready' \in Seq(Crs) /\ Range(ready') = Range(ready) \cup Range(q)
      /\ NoDup(ready) => NoDup(ready')
      /\ timers' \in Seq(Crs) /\ Range(timers') = Range(timers) \ Range(q)
      /\ NoDup(timers) => NoDup(timers')
      /\ res' \in [Crs -> Results] /\ tm' \in [Crs -> [at : Nat, id : Nat]]
      /\ wq' \in [Endpoints -> Seq(Crs)]
      /\ \A x \in Crs : res'[x] = IF x \in Range(q) THEN f[x] ELSE res[x]
      /\ \A x \in Crs : Suspended(x)' <=> Suspended(x) /\ x \notin Range(q)
  BY TriggerFacts
<1>2. UNCHANGED <<r, ret, nb1, now, lastPoll, crVars>>
  BY DEF Triggers
<1>3. IInv
  BY DEF ListsInv
<1>4. TypeOK'
  BY <1>1, <1>2, <1>3 DEF IInv, TypeOK, crVars
<1>5. ReadyQueueSound'
  BY <1>1, <1>2, <1>3 DEF IInv, ReadyQueueSound, crVars, Suspended
<1>6. \A x \in Crs : Suspended(x)' => Suspended(x)
  BY <1>1
<1>7. NoOrphans' /\ CloseCoherent' /\ WaitCoherent'
  BY <1>2, <1>3, CrVarsUnchanged
<1>8. CanceledNeverBlocks' /\ CloseNotForgotten' /\ WaitNotForgotten'
  BY <1>2, <1>3, <1>6, NoneSuspended
<1>9. FreedOnlyFinished'
  BY <1>1, <1>2, <1>3, FrameTypes, NoAnswer DEF crVars
<1> QED BY <1>4, <1>5, <1>7, <1>8, <1>9 DEF IInv

\* Whoever is woken up leaves all lists.
LEMMA TriggerLists ==
  ASSUME ListsInv, Alive, NEW q, NEW f, Triggers(q, f), cls' = cls
  PROVE  ClausesSound' /\ ClausesComplete' /\ NoMissedRendezvous'
<1>1. /\ Alive'
      /\ \A e \in Endpoints : /\ Range(wq'[e]) = Range(wq[e]) \ Range(q)
                              /\ NoDup(wq[e]) => NoDup(wq'[e])
      /\ \A x \in Crs : Suspended(x)' <=> Suspended(x) /\ x \notin Range(q)
      /\ UNCHANGED <<call, live, done>>
  BY TriggerFacts DEF Triggers, crVars
<1>2. ClausesSound'
  <2> SUFFICES ASSUME NEW e \in Endpoints
               PROVE  /\ NoDup(wq'[e])
                      /\ \A c \in Range(wq'[e]) :
                           /\ Suspended(c)' /\ call'[c] = InExt /\ c \in live' \ done'
                           /\ \E i \in DOMAIN cls'[c] : OwnList(cls'[c][i]) = e
    BY DEF ClausesSound
  <2>1. NoDup(wq'[e])
    BY <1>1 DEF ListsInv, ClausesSound
  <2>2. \A c \in Range(wq[e]) :
           /\ c \in Crs /\ Suspended(c) /\ call[c] = InExt /\ c \in live \ done
           /\ \E i \in DOMAIN cls[c] : OwnList(cls[c][i]) = e
    BY Linked
  <2> QED BY <1>1, <2>1, <2>2
<1>3. ClausesComplete'
  <2> SUFFICES ASSUME NEW c \in Crs, call'[c] = InExt, Suspended(c)', NEW i \in DOMAIN cls'[c]
               PROVE  c \in Range(wq'[OwnList(cls'[c][i])])
    BY DEF ClausesComplete
  <2>1. OwnList(cls[c][i]) \in Endpoints /\ i \in DOMAIN cls[c]
    BY ClsFacts, ClauseFacts DEF ListsInv
  <2>2. c \in Range(wq[OwnList(cls[c][i])])
    BY <1>1, <2>1 DEF ListsInv, ClausesComplete
  <2> QED BY <1>1, <2>1, <2>2
<1>4. NoMissedRendezvous'
  BY <1>1, HalfFacts DEF ListsInv, NoMissedRendezvous
<1> QED BY <1>2, <1>3, <1>4

-----------------------------------------------------------------------------
(***************************************************************************)
(* Messages.                                                               *)
(***************************************************************************)

\* The call with the clauses cl offers the message m.
Holds(cl, m) == \E j \in DOMAIN cl : cl[j].op = "send" /\ cl[j].val = m

LEMMA SettleFacts ==
  ASSUME NEW cl, NEW i
  PROVE  \A m \in Msgs : Settle(cl, i)[m] =
            IF Holds(cl, m)
            THEN IF i # 0 /\ cl[i].op = "send" /\ cl[i].val = m THEN "ok" ELSE "failed"
            ELSE fate[m]
BY Zenon DEF Settle, Holds

\* There is no trace of a message that was not offered, or was refused.
LEMMA Undelivered ==
  ASSUME ListsInv, MessagesInv, Alive, NEW m \in Msgs, fate[m] \in {"unsent", "failed"}
  PROVE  /\ ~Delivered(m) /\ taken[m] = 0 /\ \A c \in Crs : buf[c] # m
         /\ \A c \in Crs : \A i : ~Offered(m, c, i)
<1>1. \A c \in Crs : \A i : ~Offered(m, c, i)
  BY DEF MessagesInv, OneSender, Offered
<1>2. ~Delivered(m)
  BY <1>1 DEF MessagesInv, SenderKnows
<1> QED BY <1>1, <1>2 DEF Delivered, MessagesInv, OneCopy

\* A suspended coroutine has heard of no success.
LEMMA NotGiven ==
  ASSUME NEW x, Suspended(x) PROVE \A i : ~Given(x, i)
BY DEF Suspended, Given

\* A clause that offers a message is a clause to send it.
LEMMA OffersSend ==
  ASSUME ListsInv, Alive, NEW c \in Crs, NEW m \in Msgs
  PROVE  (\E j : Offered(m, c, j)) <=> Holds(cls[c], m)
<1>1. \A i \in DOMAIN cls[c] :
        IF cls[c][i].op = "send" THEN cls[c][i].val \in Msgs ELSE cls[c][i].val = NoMsg
  BY DEF ListsInv, CallsCoherent
<1> QED BY <1>1, ChanAssumption DEF Offered, Holds

\* A call that fails at once: its messages are refused.
LEMMA FailedMessages ==
  ASSUME ListsInv, MessagesInv, Alive, NEW cl, FreshClauses(cl),
         UNCHANGED <<cls, buf, taken>>, fate' = Settle(cl, 0),
         \A c \in Crs : \A i \in DOMAIN cls[c] : (Given(c, i)' <=> Given(c, i))
  PROVE  MessagesInv'
<1>1. \A m \in Msgs : \/ fate[m] = "unsent" /\ fate'[m] = "failed"
                      \/ fate'[m] = fate[m]
  BY SettleFacts DEF FreshClauses, Holds
<1>2. \A m, c, i : Offered(m, c, i)' <=> Offered(m, c, i)
  BY DEF Offered
<1>3. \A m : Delivered(m)' <=> Delivered(m)
  BY DEF Delivered
<1>4. OneSender'
  BY <1>1, <1>2 DEF MessagesInv, OneSender
<1>5. BuffersExact'
  BY DEF MessagesInv, BuffersExact
<1>6. OneCopy'
  BY DEF MessagesInv, OneCopy
<1>7. SenderKnows'
  BY <1>1, <1>2, <1>3 DEF MessagesInv, SenderKnows
<1> QED BY <1>4, <1>5, <1>6, <1>7 DEF MessagesInv

\* A call that blocks: its messages are offered.
LEMMA PendingMessages ==
  ASSUME ListsInv, MessagesInv, Alive, NEW c \in Crs, NEW cl, FreshClauses(cl),
         call[c] # InExt, cls' = [cls EXCEPT ![c] = cl], UNCHANGED <<buf, taken>>,
         fate' = [m \in Msgs |->
                    IF \E i \in DOMAIN cl : cl[i].op = "send" /\ cl[i].val = m
                    THEN "pending" ELSE fate[m]],
         \A x \in Crs \ {c} : \A i \in DOMAIN cls[x] : (Given(x, i)' <=> Given(x, i)),
         \A i : ~Given(c, i)'
  PROVE  MessagesInv'
<1>1. /\ \A x \in Crs \ {c} : cls'[x] = cls[x]
      /\ cls'[c] = cl /\ cls[c] = <<>> /\ buf[c] = NoMsg
  BY DEF ListsInv, CallsCoherent, ChanTypeOK
<1>2. \A m \in Msgs : fate'[m] = IF Holds(cl, m) THEN "pending" ELSE fate[m]
  BY DEF Holds
<1>3. \A m \in Msgs : Holds(cl, m) => fate[m] = "unsent"
  BY DEF Holds, FreshClauses
<1>4. \A m : Delivered(m)' <=> Delivered(m)
  BY DEF Delivered
<1>5. /\ \A m, i : \A x \in Crs \ {c} : Offered(m, x, i)' <=> Offered(m, x, i)
      /\ \A m, i : Offered(m, c, i)' <=> i \in DOMAIN cl /\ cl[i].val = m
      /\ \A m, i : ~Offered(m, c, i)
  BY <1>1 DEF Offered
<1>6. \A m \in Msgs : (\E i \in DOMAIN cl : Offered(m, c, i)') <=> Holds(cl, m)
  BY <1>5, ChanAssumption DEF Holds, FreshClauses
<1>7. OneSender'
  <2> SUFFICES ASSUME NEW m \in Msgs
               PROVE  /\ \A x, y \in Crs : \A i \in DOMAIN cls'[x], j \in DOMAIN cls'[y] :
                            Offered(m, x, i)' /\ Offered(m, y, j)' => x = y /\ i = j
                      /\ fate'[m] = "pending" <=>
                           \E x \in Crs : \E i \in DOMAIN cls'[x] : Offered(m, x, i)'
    BY DEF OneSender
  <2>1. CASE Holds(cl, m)
    <3>1. \A x \in Crs : \A i : ~Offered(m, x, i)
      BY <1>3, <2>1, Undelivered
    <3>2. \A i, j \in DOMAIN cl : cl[i].val = m /\ cl[j].val = m => i = j
      <4>1. \A i \in DOMAIN cl : cl[i].val = m => cl[i].op = "send"
        BY ChanAssumption DEF FreshClauses
      <4> QED BY <4>1 DEF FreshClauses
    <3>3. \E i \in DOMAIN cls'[c] : Offered(m, c, i)'
      BY <1>1, <1>6, <2>1
    <3> QED BY <1>2, <1>5, <2>1, <3>1, <3>2, <3>3
  <2>2. CASE ~Holds(cl, m)
    <3>1. \A i : ~Offered(m, c, i)'
      BY <1>5, <1>6, <2>2
    <3>2. fate'[m] = fate[m]
      BY <1>2, <2>2
    <3>3. /\ \A x, y \in Crs \ {c} : \A i \in DOMAIN cls[x], j \in DOMAIN cls[y] :
               Offered(m, x, i) /\ Offered(m, y, j) => x = y /\ i = j
          /\ fate[m] = "pending" <=>
               \E x \in Crs \ {c} : \E i \in DOMAIN cls[x] : Offered(m, x, i)
      BY <1>5 DEF MessagesInv, OneSender
    <3> QED BY <1>1, <1>5, <3>1, <3>2, <3>3
  <2> QED BY <2>1, <2>2
<1>8. BuffersExact'
  <2> SUFFICES ASSUME NEW x \in Crs
               PROVE  buf'[x] # NoMsg <=>
                        \E i \in DOMAIN cls'[x] : cls'[x][i].op = "recv" /\ Given(x, i)'
    BY DEF BuffersExact
  <2>1. CASE x = c
    BY <1>1, <2>1
  <2>2. CASE x # c
    BY <1>1, <2>2 DEF MessagesInv, BuffersExact
  <2> QED BY <2>1, <2>2
<1>9. OneCopy'
  BY DEF MessagesInv, OneCopy
<1>10. SenderKnows'
  <2> SUFFICES ASSUME NEW m \in Msgs
               PROVE  Delivered(m)' <=>
                        \/ fate'[m] = "ok"
                        \/ \E x \in Crs : \E i \in DOMAIN cls'[x] :
                              Offered(m, x, i)' /\ Given(x, i)'
    BY DEF SenderKnows
  <2>1. (\E x \in Crs : \E i \in DOMAIN cls'[x] : Offered(m, x, i)' /\ Given(x, i)')
          <=> \E x \in Crs : \E i \in DOMAIN cls[x] : Offered(m, x, i) /\ Given(x, i)
    BY <1>1, <1>5
  <2>2. fate'[m] = "ok" <=> fate[m] = "ok"
    BY <1>2, <1>3
  <2> QED BY <1>4, <2>1, <2>2 DEF MessagesInv, SenderKnows
<1> QED BY <1>7, <1>8, <1>9, <1>10 DEF MessagesInv

\* The blocked coroutine d is told that its clause j was successful, and nobody
\* else is told anything.
Tells(d, j) ==
  /\ \A k \in DOMAIN cls[d] : Given(d, k)' <=> k = j
  /\ \A x \in Crs \ {d} : \A k \in DOMAIN cls[x] : (Given(x, k)' <=> Given(x, k))

\* Clause i of a new call sends its message to the blocked receiver d.
LEMMA SentMessages ==
  ASSUME ListsInv, MessagesInv, Alive, NEW cl, FreshClauses(cl),
         NEW i \in DOMAIN cl, cl[i].op = "send",
         NEW d \in Crs, Suspended(d), NEW j \in DOMAIN cls[d], cls[d][j].op = "recv",
         UNCHANGED <<cls, taken>>, buf' = [buf EXCEPT ![d] = cl[i].val],
         fate' = Settle(cl, i), Tells(d, j)
  PROVE  MessagesInv'
<1> DEFINE m == cl[i].val
<1>1. m \in Msgs /\ fate[m] = "unsent" /\ m # NoMsg /\ i # 0
  BY FreshFacts, ChanAssumption DEF FreshClauses
<1>2. /\ fate'[m] = "ok"
      /\ \A n \in Msgs \ {m} : \/ fate[n] = "unsent" /\ fate'[n] = "failed"
                               \/ fate'[n] = fate[n]
  <2>1. Holds(cl, m)
    BY DEF Holds
  <2>2. \A n \in Msgs : Holds(cl, n) => fate[n] = "unsent"
    BY DEF Holds, FreshClauses
  <2> QED BY <1>1, <2>1, <2>2, SettleFacts
<1>3. ~Delivered(m) /\ taken[m] = 0 /\ (\A c \in Crs : buf[c] # m)
        /\ \A c \in Crs : \A k : ~Offered(m, c, k)
  BY <1>1, Undelivered
<1> HIDE DEF m
<1>4. \A k : ~Given(d, k)
  BY NotGiven
<1>5. buf[d] = NoMsg
  BY <1>4 DEF MessagesInv, BuffersExact
<1>6. buf'[d] = m /\ \A x \in Crs \ {d} : buf'[x] = buf[x]
  BY DEF ListsInv, ChanTypeOK, m
<1>7. \A n, c, k : Offered(n, c, k)' <=> Offered(n, c, k)
  BY DEF Offered
<1>8. cls[d][j].val = NoMsg /\ \A n \in Msgs : ~Offered(n, d, j)
  BY ChanAssumption DEF ListsInv, CallsCoherent, Offered
<1>9. /\ Delivered(m)' /\ \A n \in Msgs \ {m} : Delivered(n)' <=> Delivered(n)
  BY <1>5, <1>6, ChanAssumption DEF Delivered
<1>10. OneSender'
  BY <1>1, <1>2, <1>7 DEF MessagesInv, OneSender
<1>11. BuffersExact'
  <2>1. buf'[d] # NoMsg /\ cls'[d][j].op = "recv" /\ j \in DOMAIN cls'[d] /\ Given(d, j)'
    BY <1>1, <1>6 DEF Tells
  <2> QED BY <1>6, <2>1 DEF MessagesInv, BuffersExact, Tells
<1>12. OneCopy'
  BY <1>1, <1>3, <1>6 DEF MessagesInv, OneCopy
<1>13. SenderKnows'
  <2> SUFFICES ASSUME NEW n \in Msgs, n # m
               PROVE  Delivered(n)' <=>
                        \/ fate'[n] = "ok"
                        \/ \E x \in Crs : \E k \in DOMAIN cls'[x] :
                              Offered(n, x, k)' /\ Given(x, k)'
    BY <1>2, <1>9 DEF SenderKnows
  <2>1. (\E x \in Crs : \E k \in DOMAIN cls'[x] : Offered(n, x, k)' /\ Given(x, k)')
          <=> \E x \in Crs : \E k \in DOMAIN cls[x] : Offered(n, x, k) /\ Given(x, k)
    BY <1>4, <1>7, <1>8 DEF Tells
  <2>2. fate'[n] = "ok" <=> fate[n] = "ok"
    BY <1>2
  <2> QED BY <1>9, <2>1, <2>2 DEF MessagesInv, SenderKnows
<1> QED BY <1>10, <1>11, <1>12, <1>13 DEF MessagesInv

\* Clause i of a new call receives the message of the blocked sender d.
LEMMA ReceivedMessages ==
  ASSUME ListsInv, MessagesInv, Alive, NEW cl, FreshClauses(cl),
         NEW i \in DOMAIN cl, cl[i].op = "recv",
         NEW d \in Crs, Suspended(d), NEW j \in DOMAIN cls[d], cls[d][j].op = "send",
         UNCHANGED <<cls, buf>>, taken' = [taken EXCEPT ![cls[d][j].val] = @ + 1],
         fate' = Settle(cl, i), Tells(d, j)
  PROVE  MessagesInv'
<1>0. PICK m : m = cls[d][j].val
  OBVIOUS
<1>1. m \in Msgs /\ Offered(m, d, j)
  BY <1>0 DEF ListsInv, CallsCoherent, Offered
<1>2. fate[m] = "pending"
  BY <1>1 DEF MessagesInv, OneSender
<1>3. /\ fate'[m] = "pending"
      /\ \A n \in Msgs : \/ fate[n] = "unsent" /\ fate'[n] = "failed"
                         \/ fate'[n] = fate[n]
  <2>1. \A n \in Msgs : Holds(cl, n) => fate[n] = "unsent"
    BY DEF Holds, FreshClauses
  <2> QED BY <1>1, <1>2, <2>1, SettleFacts
<1>4. \A k : ~Given(d, k)
  BY NotGiven
<1>5. \A x \in Crs : \A k \in DOMAIN cls[x] : Offered(m, x, k) => x = d /\ k = j
  BY <1>1 DEF MessagesInv, OneSender
<1>6. ~Delivered(m)
  BY <1>1, <1>2, <1>4, <1>5 DEF MessagesInv, SenderKnows
<1>7. taken[m] = 0 /\ \A x \in Crs : buf[x] # m
  BY <1>1, <1>6 DEF Delivered, MessagesInv, OneCopy
<1>8. \A n : n # m => ~Offered(n, d, j)
  BY <1>0 DEF Offered
<1>9. taken'[m] = 1 /\ \A n \in Msgs \ {m} : taken'[n] = taken[n]
  <2>1. taken \in [Msgs -> Nat]
    BY DEF ListsInv, ChanTypeOK
  <2> QED BY <1>0, <1>1, <1>7, <2>1
<1>10. \A n, c, k : Offered(n, c, k)' <=> Offered(n, c, k)
  BY DEF Offered
<1>11. Delivered(m)' /\ \A n \in Msgs \ {m} : Delivered(n)' <=> Delivered(n)
  BY <1>9 DEF Delivered
<1>12. OneSender'
  BY <1>3, <1>10 DEF MessagesInv, OneSender
<1>13. BuffersExact'
  <2>1. buf[d] = NoMsg
    BY <1>4 DEF MessagesInv, BuffersExact
  <2> QED BY <2>1 DEF MessagesInv, BuffersExact, Tells
<1>14. OneCopy'
  BY <1>1, <1>7, <1>9 DEF MessagesInv, OneCopy
<1>15. SenderKnows'
  <2>1. Given(d, j)' /\ Offered(m, d, j)'
    BY <1>1, <1>10 DEF Tells
  <2> SUFFICES ASSUME NEW n \in Msgs, n # m
               PROVE  Delivered(n)' <=>
                        \/ fate'[n] = "ok"
                        \/ \E x \in Crs : \E k \in DOMAIN cls'[x] :
                              Offered(n, x, k)' /\ Given(x, k)'
    BY <1>11, <2>1 DEF SenderKnows
  <2>2. (\E x \in Crs : \E k \in DOMAIN cls'[x] : Offered(n, x, k)' /\ Given(x, k)')
          <=> \E x \in Crs : \E k \in DOMAIN cls[x] : Offered(n, x, k) /\ Given(x, k)
    BY <1>4, <1>8, <1>10 DEF Tells
  <2>3. fate'[n] = "ok" <=> fate[n] = "ok"
    BY <1>3
  <2> QED BY <1>11, <2>2, <2>3 DEF MessagesInv, SenderKnows
<1> QED BY <1>12, <1>13, <1>14, <1>15 DEF MessagesInv

\* The clause that dill_wait reports as successful is the one that was given.
LEMMA ServedFacts ==
  ASSUME ListsInv, Alive, NEW c \in Crs, r = c
  PROVE  /\ Served(c) = 0 => \A k \in DOMAIN cls[c] : ~Given(c, k)
         /\ Served(c) # 0 => /\ Served(c) \in DOMAIN cls[c]
                             /\ \A k \in DOMAIN cls[c] : Given(c, k) <=> k = Served(c)
<1>1. /\ c \notin Range(ready) /\ ret \in [id : Int, err : Errors]
  BY DEF ListsInv, IInv, TypeOK, Results, ReadyQueueSound
<1>2. ret = [id |-> ret.id, err |-> ret.err] /\ ret.id \in Int
  BY <1>1
<1>3. Len(cls[c]) \in Nat /\ DOMAIN cls[c] = 1..Len(cls[c])
  BY ClsFacts DEF ListsInv
<1>4. \A k : Given(c, k) <=> ret.id = k - 1 /\ ret.err = "0"
  BY <1>1, <1>2 DEF Given, Result
<1>5. \A k \in Int : Given(c, k) <=> k = ret.id + 1 /\ ret.err = "0"
  BY <1>2, <1>4
<1>6. CASE ret.id \in 0..(Len(cls[c]) - 1) /\ ret.err = "0"
  <2>1. Served(c) = ret.id + 1
    BY <1>6 DEF Served
  <2> QED BY <1>2, <1>3, <1>5, <1>6, <2>1
<1>7. CASE ~(ret.id \in 0..(Len(cls[c]) - 1) /\ ret.err = "0")
  <2>1. Served(c) = 0
    BY <1>7 DEF Served
  <2> QED BY <1>2, <1>3, <1>5, <1>7, <2>1
<1> QED BY <1>6, <1>7

\* A blocked call returns: its messages are sent or refused, its buffer is the
\* caller's.
LEMMA ReturnedMessages ==
  ASSUME ListsInv, MessagesInv, Alive, NEW c \in Crs, r = c,
         fate' = Settle(cls[c], Served(c)), taken' = Take(cls[c], Served(c), buf[c]),
         buf' = [buf EXCEPT ![c] = NoMsg], cls' = [cls EXCEPT ![c] = <<>>],
         \A x \in Crs : \A k : Given(x, k)' <=> Given(x, k)
  PROVE  MessagesInv'
<1> DEFINE i == Served(c)
<1>1. /\ i = 0 => \A k \in DOMAIN cls[c] : ~Given(c, k)
      /\ i # 0 => i \in DOMAIN cls[c] /\ \A k \in DOMAIN cls[c] : Given(c, k) <=> k = i
  BY ServedFacts
<1>2. \A m \in Msgs : fate'[m] =
            IF Holds(cls[c], m)
            THEN IF i # 0 /\ cls[c][i].op = "send" /\ cls[c][i].val = m THEN "ok" ELSE "failed"
            ELSE fate[m]
  BY SettleFacts
<1>3. \A k \in DOMAIN cls[c] :
        /\ cls[c][k].op \in {"send", "recv"}
        /\ cls[c][k].op = "send" => cls[c][k].val \in Msgs
        /\ cls[c][k].op = "recv" => cls[c][k].val = NoMsg
  BY ClsFacts, ClauseFacts DEF ListsInv, CallsCoherent
<1>4. \A m \in Msgs : Holds(cls[c], m) <=> \E k : Offered(m, c, k)
  BY OffersSend
<1>5. taken' = IF i # 0 /\ cls[c][i].op = "recv" THEN [taken EXCEPT ![buf[c]] = @ + 1] ELSE taken
  BY DEF Take
<1> HIDE DEF i
<1>6. /\ buf'[c] = NoMsg /\ \A x \in Crs \ {c} : buf'[x] = buf[x]
      /\ cls'[c] = <<>> /\ \A x \in Crs \ {c} : cls'[x] = cls[x]
  BY DEF ListsInv, ChanTypeOK
<1>7. buf[c] # NoMsg <=> i # 0 /\ cls[c][i].op = "recv"
  BY <1>1 DEF MessagesInv, BuffersExact
<1>8. /\ \A m, k : ~Offered(m, c, k)'
      /\ \A m, k : \A x \in Crs \ {c} : Offered(m, x, k)' <=> Offered(m, x, k)
  BY <1>6 DEF Offered
<1>9. ASSUME buf[c] # NoMsg
      PROVE  /\ buf[c] \in Msgs /\ taken[buf[c]] = 0 /\ taken'[buf[c]] = 1
             /\ \A m \in Msgs \ {buf[c]} : taken'[m] = taken[m]
             /\ \A x \in Crs \ {c} : buf[x] # buf[c]
  <2>1. buf[c] \in Msgs /\ taken \in [Msgs -> Nat]
    BY <1>9 DEF ListsInv, ChanTypeOK
  <2>2. taken[buf[c]] = 0 /\ \A x \in Crs \ {c} : buf[x] # buf[c]
    BY <2>1 DEF MessagesInv, OneCopy
  <2>3. taken' = [taken EXCEPT ![buf[c]] = @ + 1]
    BY <1>5, <1>7, <1>9
  <2> QED BY <2>1, <2>2, <2>3
<1>10. buf[c] = NoMsg => taken' = taken
  BY <1>5, <1>7
<1>11. \A m \in Msgs : Delivered(m)' <=> Delivered(m)
  <2>1. CASE buf[c] = NoMsg
    BY <1>6, <1>10, <2>1, ChanAssumption DEF Delivered
  <2>2. CASE buf[c] # NoMsg
    <3>1. \A m \in Msgs \ {buf[c]} : Delivered(m)' <=> Delivered(m)
      BY <1>6, <1>9, <2>2, ChanAssumption DEF Delivered
    <3>2. \A m : m = buf[c] => Delivered(m)' /\ Delivered(m)
      BY <1>9, <2>2 DEF Delivered
    <3> QED BY <3>1, <3>2
  <2> QED BY <2>1, <2>2
<1>12. OneSender'
  <2> SUFFICES ASSUME NEW m \in Msgs
               PROVE  /\ \A x, y \in Crs : \A k \in DOMAIN cls'[x], j \in DOMAIN cls'[y] :
                            Offered(m, x, k)' /\ Offered(m, y, j)' => x = y /\ k = j
                      /\ fate'[m] = "pending" <=>
                           \E x \in Crs : \E k \in DOMAIN cls'[x] : Offered(m, x, k)'
    BY DEF OneSender
  <2>1. /\ \A x, y \in Crs : \A k \in DOMAIN cls[x], j \in DOMAIN cls[y] :
             Offered(m, x, k) /\ Offered(m, y, j) => x = y /\ k = j
        /\ fate[m] = "pending" <=> \E x \in Crs : \E k \in DOMAIN cls[x] : Offered(m, x, k)
    BY DEF MessagesInv, OneSender
  <2>2. CASE Holds(cls[c], m)
    <3>1. fate'[m] # "pending" /\ \A x \in Crs \ {c} : \A k \in DOMAIN cls[x] : ~Offered(m, x, k)
      <4>1. PICK k : Offered(m, c, k)
        BY <1>4, <2>2
      <4>2. k \in DOMAIN cls[c]
        BY <4>1 DEF Offered
      <4> QED BY <1>2, <2>1, <2>2, <4>1, <4>2
    <3> QED BY <1>6, <1>8, <3>1
  <2>3. CASE ~Holds(cls[c], m)
    <3>1. fate'[m] = fate[m] /\ \A k : ~Offered(m, c, k)
      BY <1>2, <1>4, <2>3
    <3> QED BY <1>6, <1>8, <2>1, <3>1
  <2> QED BY <2>2, <2>3
<1>13. BuffersExact'
  BY <1>6 DEF MessagesInv, BuffersExact
<1>14. OneCopy'
  <2>1. CASE buf[c] = NoMsg
    BY <1>6, <1>10, <2>1, ChanAssumption DEF MessagesInv, OneCopy
  <2>2. CASE buf[c] # NoMsg
    BY <1>6, <1>9, <2>2, ChanAssumption DEF MessagesInv, OneCopy
  <2> QED BY <2>1, <2>2
<1>15. SenderKnows'
  <2> SUFFICES ASSUME NEW m \in Msgs
               PROVE  Delivered(m)' <=>
                        \/ fate'[m] = "ok"
                        \/ \E x \in Crs : \E k \in DOMAIN cls'[x] :
                              Offered(m, x, k)' /\ Given(x, k)'
    BY DEF SenderKnows
  <2>1. Delivered(m) <=> \/ fate[m] = "ok"
                         \/ \E x \in Crs : \E k \in DOMAIN cls[x] : Offered(m, x, k) /\ Given(x, k)
    BY DEF MessagesInv, SenderKnows
  <2>2. CASE Holds(cls[c], m)
    <3>1. PICK k : Offered(m, c, k)
      BY <1>4, <2>2
    <3>2. k \in DOMAIN cls[c] /\ cls[c][k].val = m /\ fate[m] # "ok"
            /\ \A x \in Crs : \A j \in DOMAIN cls[x] : Offered(m, x, j) => x = c /\ j = k
      <4>1. k \in DOMAIN cls[c] /\ cls[c][k].val = m
        BY <3>1 DEF Offered
      <4> QED BY <3>1, <4>1 DEF MessagesInv, OneSender
    <3>3. Delivered(m) <=> Given(c, k)
      BY <2>1, <3>1, <3>2
    <3>4. cls[c][k].op = "send"
      BY <1>3, <3>2, ChanAssumption
    <3>5. fate'[m] = "ok" <=> i # 0 /\ cls[c][i].op = "send" /\ cls[c][i].val = m
      BY <1>2, <2>2
    <3>6. fate'[m] = "ok" <=> i # 0 /\ i = k
      <4>1. i # 0 /\ cls[c][i].val = m => i = k
        BY <1>1, <3>2 DEF Offered
      <4> QED BY <3>2, <3>4, <3>5, <4>1
    <3>7. \A x \in Crs : \A j \in DOMAIN cls'[x] : ~Offered(m, x, j)'
      BY <1>6, <1>8, <3>2
    <3> QED BY <1>1, <1>11, <3>2, <3>3, <3>6, <3>7
  <2>3. CASE ~Holds(cls[c], m)
    <3>1. fate'[m] = fate[m] /\ \A k : ~Offered(m, c, k)
      BY <1>2, <1>4, <2>3
    <3> QED BY <1>6, <1>8, <1>11, <2>1, <3>1
  <2> QED BY <2>2, <2>3
<1> QED BY <1>12, <1>13, <1>14, <1>15 DEF MessagesInv

-----------------------------------------------------------------------------
(***************************************************************************)
(* Every step of the channels preserves the invariant.                     *)
(***************************************************************************)

\* A step that leaves coroutines, clauses and buffers alone.
LEMMA StillLists ==
  ASSUME ListsInv, Alive, UNCHANGED vars, UNCHANGED <<cls, buf>>, ChanTypeOK',
         \A h \in Halves : half'[h] = "none" => half'[Other(h)] = "none",
         \A h \in Halves : h \in chdone' \/ half'[h] = "none" => h \in chdone \/ half[h] = "none"
  PROVE  /\ ListsInv' /\ Alive'
         /\ \A x, k : Given(x, k)' <=> Given(x, k)
<1>1. /\ UNCHANGED <<r, ret, ready, res, timers, tm, wq, nb1, now, lastPoll, abort>>
      /\ UNCHANGED <<live, done, call>>
  BY DEF vars, schedVars, crVars
<1>2. IInv' /\ Alive'
  BY <1>1, NextIInv DEF ListsInv, Alive
<1>3. CallsCoherent'
  BY <1>1 DEF ListsInv, CallsCoherent
<1>4. ClausesSound' /\ ClausesComplete'
  BY <1>1 DEF ListsInv, ClausesSound, ClausesComplete, Suspended
<1>5. NobodyLeftBehind' /\ NoMissedRendezvous'
  BY <1>1 DEF ListsInv, NobodyLeftBehind, NoMissedRendezvous
<1>6. \A x, k : Given(x, k)' <=> Given(x, k)
  BY <1>1 DEF Given
<1> QED BY <1>2, <1>3, <1>4, <1>5, <1>6 DEF ListsInv

\* A step that wakes up blocked calls.
LEMMA TriggeredLists ==
  ASSUME ListsInv, Alive, NEW q, NEW f, Triggers(q, f), cls' = cls,
         half' \in [Halves -> {"none", "open", "closed"}], chdone' \subseteq Halves,
         buf' \in [Crs -> Msgs \cup {NoMsg}], taken' \in [Msgs -> Nat],
         fate' \in [Msgs -> {"unsent", "pending", "ok", "failed"}],
         NobodyLeftBehind',
         \A x \in Crs : call[x] # InExt => buf'[x] = buf[x],
         \A h \in Halves : half'[h] = "none" => half'[Other(h)] = "none"
  PROVE  ListsInv' /\ Alive'
<1>1. IInv' /\ Alive' /\ UNCHANGED <<call, live, done>>
  BY TriggerIInv, TriggerFacts DEF Triggers, crVars
<1>2. ChanTypeOK'
  BY <1>1 DEF IInv, ListsInv, ChanTypeOK
<1>3. CallsCoherent'
  BY <1>1 DEF ListsInv, CallsCoherent
<1>4. ClausesSound' /\ ClausesComplete' /\ NoMissedRendezvous'
  BY TriggerLists
<1> QED BY <1>1, <1>2, <1>3, <1>4 DEF ListsInv

\* Nobody is told of a success if everybody is told an error.
LEMMA TriggerErrors ==
  ASSUME ListsInv, Alive, NEW q, NEW f, Triggers(q, f),
         \A x \in Range(q) : f[x].err # "0"
  PROVE  \A x \in Crs : \A k : Given(x, k)' <=> Given(x, k)
<1>1. /\ \A x \in Range(q) : x \in Crs /\ Suspended(x)
      /\ Range(ready') = Range(ready) \cup Range(q)
      /\ \A x \in Crs : res'[x] = IF x \in Range(q) THEN f[x] ELSE res[x]
      /\ r' = r /\ ret' = ret
  BY TriggerFacts DEF Triggers
<1>2. \A k : Result(k - 1, "0").err = "0"
  BY DEF Result
<1> SUFFICES ASSUME NEW x \in Crs, NEW k PROVE Given(x, k)' <=> Given(x, k)
  OBVIOUS
<1>3. CASE x \in Range(q)
  BY <1>1, <1>2, <1>3 DEF Given, Suspended
<1>4. CASE x \notin Range(q)
  BY <1>1, <1>4 DEF Given
<1> QED BY <1>3, <1>4

\* One list after the other.
LEMMA ThenFacts ==
  ASSUME NEW a \in Seq(Crs), NEW b \in Seq(Crs), NoDup(a), NoDup(b)
  PROVE  Then(a, b) \in Seq(Crs) /\ NoDup(Then(a, b)) /\ Range(Then(a, b)) = Range(a) \cup Range(b)
<1>1. /\ Without(b, Range(a)) \in Seq(Crs) /\ NoDup(Without(b, Range(a)))
      /\ Range(Without(b, Range(a))) = Range(b) \ Range(a)
  BY WithoutFacts
<1>2. Then(a, b) = a \o Without(b, Range(a))
  BY DEF Then
<1> QED BY <1>1, <1>2, RangeConcat

LEMMA WaitingFacts ==
  ASSUME ListsInv, Alive, NEW h \in Halves
  PROVE  /\ Waiting(h) \in Seq(Crs) /\ NoDup(Waiting(h))
         /\ Range(Waiting(h)) = Range(wq[In(h)]) \cup Range(wq[Out(h)])
<1>1. In(h) \in Endpoints /\ Out(h) \in Endpoints
  BY HalfFacts
<1>2. \A e \in Endpoints : wq[e] \in Seq(Crs) /\ NoDup(wq[e])
  BY DEF ListsInv, ChanTypeOK, TypeOK, ClausesSound
<1> QED BY <1>1, <1>2, ThenFacts DEF Waiting

\* The loops of dill_chdone and dill_halfchan_close find everybody in a list.
LEMMA WaitingFound ==
  ASSUME ListsInv, Alive, NEW g \in Halves
  PROVE  /\ ListsOf(g) \in Seq(Endpoints)
         /\ \A x \in Range(Waiting(g)) :
               \E i \in DOMAIN ListsOf(g) : x \in Range(wq[ListsOf(g)[i]])
<1> DEFINE es == ListsOf(g)
<1>1. /\ In(g) \in Endpoints /\ Out(g) \in Endpoints /\ es = <<In(g), Out(g)>>
      /\ Range(Waiting(g)) = Range(wq[In(g)]) \cup Range(wq[Out(g)])
  BY HalfFacts, WaitingFacts DEF ListsOf
<1> HIDE DEF es
<1>2. es \in Seq(Endpoints) /\ 1 \in DOMAIN es /\ 2 \in DOMAIN es /\ es[1] = In(g) /\ es[2] = Out(g)
  BY <1>1
<1>3. \A x \in Range(Waiting(g)) : \E i \in DOMAIN es : x \in Range(wq[es[i]])
  BY <1>1, <1>2
<1> QED BY <1>2, <1>3 DEF es

LEMMA TermWaitingFound ==
  ASSUME ListsInv, Alive, NEW h \in Halves
  PROVE  LET q == TermWaiting(h[1])
             es == ListsOf(<<h[1], 0>>) \o ListsOf(<<h[1], 1>>)
         IN /\ q \in Seq(Crs) /\ NoDup(q) /\ es \in Seq(Endpoints)
            /\ \A x \in Range(q) : \E i \in DOMAIN es : x \in Range(wq[es[i]])
            /\ \A n \in {h, Other(h)} : Range(wq[In(n)]) \cup Range(wq[Out(n)]) \subseteq Range(q)
<1> DEFINE a == <<h[1], 0>>
           b == <<h[1], 1>>
           q == TermWaiting(h[1])
           es == ListsOf(a) \o ListsOf(b)
<1>1. /\ a \in Halves /\ b \in Halves /\ (h = a \/ h = b)
      /\ Other(h) = IF h = a THEN b ELSE a
  <2>1. h[1] \in Chans /\ (h = a \/ h = b) /\ Other(h) = IF h = a THEN b ELSE a
    BY HalfFacts
  <2> QED BY <2>1 DEF Halves
<1>2. /\ In(a) \in Endpoints /\ Out(a) \in Endpoints
      /\ In(b) \in Endpoints /\ Out(b) \in Endpoints
  BY <1>1, HalfFacts
<1>3. es = <<In(a), Out(a)>> \o <<In(b), Out(b)>> /\ q = Then(Waiting(a), Waiting(b))
  BY DEF ListsOf, TermWaiting
<1> HIDE DEF a, b, q, es
<1>4. /\ Waiting(a) \in Seq(Crs) /\ NoDup(Waiting(a))
      /\ Range(Waiting(a)) = Range(wq[In(a)]) \cup Range(wq[Out(a)])
      /\ Waiting(b) \in Seq(Crs) /\ NoDup(Waiting(b))
      /\ Range(Waiting(b)) = Range(wq[In(b)]) \cup Range(wq[Out(b)])
  BY <1>1, WaitingFacts
<1>5. q \in Seq(Crs) /\ NoDup(q) /\ Range(q) = Range(Waiting(a)) \cup Range(Waiting(b))
  BY <1>3, <1>4, ThenFacts
<1>6. /\ es \in Seq(Endpoints) /\ DOMAIN es = 1..4
      /\ es[1] = In(a) /\ es[2] = Out(a) /\ es[3] = In(b) /\ es[4] = Out(b)
  BY <1>2, <1>3
<1>7. \A x \in Range(q) : \E i \in DOMAIN es : x \in Range(wq[es[i]])
  BY <1>4, <1>5, <1>6
<1>8. \A n \in {h, Other(h)} : Range(wq[In(n)]) \cup Range(wq[Out(n)]) \subseteq Range(q)
  BY <1>1, <1>4, <1>5
<1> QED BY <1>5, <1>6, <1>7, <1>8 DEF q, es, a, b

\* dill_trigger with EPIPE for all of them.
LEMMA TriggerAllFacts ==
  ASSUME ListsInv, Alive, NEW q \in Seq(Crs), NoDup(q), NEW es \in Seq(Endpoints),
         \A x \in Range(q) : \E i \in DOMAIN es : x \in Range(wq[es[i]]),
         TriggerAll(q, es), UNCHANGED <<r, ret, nb1, now, lastPoll, crVars>>
  PROVE  \E f : Triggers(q, f) /\ \A x \in Range(q) : f[x].err # "0"
<1> DEFINE first(x) == CHOOSE i \in DOMAIN es :
                         /\ x \in Range(wq[es[i]])
                         /\ \A j \in 1..(i - 1) : x \notin Range(wq[es[j]])
           f == [x \in Crs |-> IF x \in Range(q)
                               THEN Result(ClauseIn(x, es[first(x)]) - 1, "EPIPE")
                               ELSE NoResult]
<1>1. DoCancel(q, f)
  BY DEF TriggerAll
<1>2. Len(es) \in Nat /\ DOMAIN es = 1..Len(es) /\ \A i \in DOMAIN es : es[i] \in Endpoints
  OBVIOUS
<1>3. ASSUME NEW x \in Range(q) PROVE ClauseIn(x, es[first(x)]) \in Nat
  <2> DEFINE T == {i \in DOMAIN es : x \in Range(wq[es[i]])}
  <2>1. T \subseteq Nat /\ T # {}
    BY <1>2
  <2>2. PICK n \in T : \A i \in T : n <= i
    BY <2>1, NatMin
  <2>3. \A j \in 1..(n - 1) : x \notin Range(wq[es[j]])
    BY <1>2, <2>2
  <2>4. first(x) \in DOMAIN es /\ x \in Range(wq[es[first(x)]])
    BY <2>2, <2>3
  <2> HIDE DEF first
  <2>5. x \in Crs /\ \E i \in DOMAIN cls[x] : OwnList(cls[x][i]) = es[first(x)]
    BY <1>2, <2>4, Linked
  <2>6. ClauseIn(x, es[first(x)]) \in DOMAIN cls[x]
    BY <2>5, ClauseInFacts DEF ListsInv
  <2> QED BY <2>5, <2>6, ClsFacts DEF ListsInv
<1>4. \A x \in Range(q) : x \in Crs
  BY RangeDef
<1> HIDE DEF first
<1>5. f \in [Crs -> Results]
  <2>1. \A x \in Range(q) : Result(ClauseIn(x, es[first(x)]) - 1, "EPIPE") \in Results
    BY <1>3 DEF Result, Results, Errors
  <2> QED BY <2>1, ResultTypes
<1>6. \A x \in Range(q) : f[x].err # "0"
  BY <1>4 DEF Result
<1> HIDE DEF f
<1>7. Triggers(q, f)
  BY <1>1, <1>2, <1>5 DEF Triggers
<1> QED BY <1>6, <1>7

\* dill_chmake.
LEMMA ChmakeInv ==
  ASSUME ChanInv, NEW c \in Crs, NEW ch \in Chans, Chmake(c, ch) PROVE ChanInv'
<1>1. /\ Alive /\ UNCHANGED <<vars, cls, buf, fate, taken>>
      /\ half' = [half EXCEPT ![<<ch, 0>>] = "open", ![<<ch, 1>>] = "open"]
      /\ chdone' = chdone \ {<<ch, 0>>, <<ch, 1>>}
  BY DEF Chmake, User, Running
<1>2. /\ half \in [Halves -> {"none", "open", "closed"}] /\ ListsInv /\ MessagesInv
      /\ ChanTypeOK /\ <<ch, 0>> \in Halves /\ <<ch, 1>> \in Halves
      /\ UNCHANGED vars /\ UNCHANGED <<cls, buf, fate, taken>>
  BY <1>1 DEF ChanInv, ListsInv, ChanTypeOK, Halves
<1>3. ChanTypeOK'
  <2>1. half' \in [Halves -> {"none", "open", "closed"}] /\ chdone' \subseteq Halves
    BY <1>1, <1>2 DEF ChanTypeOK
  <2>2. TypeOK'
    BY <1>2 DEF ChanTypeOK, TypeOK, vars, schedVars, crVars
  <2> QED BY <1>2, <2>1, <2>2 DEF ChanTypeOK
<1>4. \A h \in Halves : half'[h] = IF h[1] = ch THEN "open" ELSE half[h]
  <2> SUFFICES ASSUME NEW h \in Halves PROVE half'[h] = IF h[1] = ch THEN "open" ELSE half[h]
    OBVIOUS
  <2>1. h = <<h[1], 0>> \/ h = <<h[1], 1>>
    BY HalfFacts
  <2>2. h[1] = ch => h = <<ch, 0>> \/ h = <<ch, 1>>
    BY <2>1
  <2>3. h = <<ch, 0>> \/ h = <<ch, 1>> => h[1] = ch
    OBVIOUS
  <2> QED BY <1>1, <1>2, <2>2, <2>3
<1>5. \A h \in Halves : half'[h] = "none" => half'[Other(h)] = "none"
  <2>1. \A h \in Halves : Other(h) \in Halves /\ Other(h)[1] = h[1]
    BY HalfFacts DEF Other
  <2> QED BY <1>1, <1>2, <1>4, <2>1 DEF ListsInv, CallsCoherent
<1>6. \A h \in Halves : h \in chdone' \/ half'[h] = "none" => h \in chdone \/ half[h] = "none"
  BY <1>1, <1>4
<1>7. ListsInv' /\ Alive' /\ \A x, k : Given(x, k)' <=> Given(x, k)
  BY <1>1, <1>2, <1>3, <1>5, <1>6, StillLists
<1> QED BY <1>1, <1>2, <1>7, SameMessages DEF ChanInv

\* chsend(), chrecv() or choose() fails at once.
LEMMA RefusedInv ==
  ASSUME ChanInv, Alive, NEW cl, FreshClauses(cl), fate' = Settle(cl, 0), UNCHANGED vars,
         UNCHANGED <<half, chdone, cls, buf, taken>>
  PROVE  ChanInv'
<1>1. ListsInv /\ MessagesInv /\ ChanTypeOK
  BY DEF ChanInv, ListsInv
<1>2. ChanTypeOK'
  <2>1. fate' \in [Msgs -> {"unsent", "pending", "ok", "failed"}]
    BY <1>1, BookTypes
  <2>2. TypeOK'
    BY <1>1 DEF ChanTypeOK, TypeOK, vars, schedVars, crVars
  <2> QED BY <1>1, <2>1, <2>2 DEF ChanTypeOK
<1>3. \A h \in Halves : half'[h] = "none" => half'[Other(h)] = "none"
  BY <1>1 DEF ListsInv, CallsCoherent
<1>4. ListsInv' /\ Alive' /\ \A x, k : Given(x, k)' <=> Given(x, k)
  BY <1>1, <1>2, <1>3, StillLists
<1> QED BY <1>1, <1>4, FailedMessages DEF ChanInv

\* A rendezvous: the first coroutine d in the list is triggered, with the clause
\* j that waits there.
Meeting(cl, i, d, j) ==
  LET k == cl[i]
      e == PeerList(k)
      p == cls[d][j]
  IN /\ e \in Endpoints /\ wq[e] # <<>> /\ d = Head(wq[e]) /\ Suspended(d)
     /\ call[d] = InExt /\ j = ClauseIn(d, e) /\ j \in DOMAIN cls[d]
     /\ OwnList(p) = e
     /\ (k.op = "send" => p.op = "recv") /\ (k.op = "recv" => p.op = "send")
     /\ Triggers(<<d>>, [x \in Crs |-> Result(j - 1, PeerError(k, p))])
     /\ IF k.len = p.len
        THEN /\ buf' = IF k.op = "send" THEN [buf EXCEPT ![d] = k.val] ELSE buf
             /\ fate' = Settle(cl, i)
             /\ taken' = Take(cl, i, p.val)
        ELSE /\ fate' = Settle(cl, 0)
             /\ UNCHANGED <<buf, taken>>

LEMMA MeetFacts ==
  ASSUME ListsInv, Alive, NEW c \in Crs, NEW cl, FreshClauses(cl), NEW i \in DOMAIN cl,
         half[cl[i].h] = "open", Target(cl[i]) \notin chdone, Decided(cl[i]),
         Meet(c, cl, i), UNCHANGED <<r, ret, nb1, now, lastPoll, crVars>>
  PROVE  \E d \in Crs, j \in Nat \ {0} : Meeting(cl, i, d, j)
<1> DEFINE k == cl[i]
           e == PeerList(k)
<1>0. PICK d, j : d = Head(wq[e]) /\ j = ClauseIn(d, e)
  OBVIOUS
<1> DEFINE p == cls[d][j]
           err == PeerError(k, p)
           q == <<d>>
           f == [x \in Crs |-> Result(j - 1, err)]
<1>1. ChanTypeOK /\ TypeOK
  BY DEF ListsInv, IInv
<1>2. k \in Clauses /\ e \in Endpoints /\ k.op \in {"send", "recv"} /\ wq[e] # <<>>
  BY FreshFacts, ClauseFacts DEF Decided
<1>3. wq[e] \in Seq(Crs) /\ d \in Range(wq[e]) /\ d \in Crs
  BY <1>0, <1>1, <1>2, RangeTail DEF TypeOK
<1>4. Suspended(d) /\ call[d] = InExt /\ \E n \in DOMAIN cls[d] : OwnList(cls[d][n]) = e
  BY <1>1, <1>2, <1>3, Linked
<1>5. j \in DOMAIN cls[d] /\ OwnList(p) = e /\ p \in Clauses /\ j \in Nat \ {0}
  BY <1>0, <1>1, <1>3, <1>4, ClauseInFacts, ClsFacts
<1>6. (k.op = "send" => p.op = "recv") /\ (k.op = "recv" => p.op = "send")
  <2>1. Target(k) \in Halves /\ (k.op = "send" => e = In(Target(k)))
          /\ (k.op = "recv" => e = Out(Target(k)))
    BY <1>2, ClauseFacts
  <2> HIDE DEF e, p, k
  <2> QED BY <1>5, <2>1, ClauseFacts
<1>7. /\ DoCancel(q, f)
      /\ IF k.len = p.len
         THEN /\ buf' = IF k.op = "send" THEN [buf EXCEPT ![d] = k.val] ELSE buf
              /\ fate' = Settle(cl, i)
              /\ taken' = Take(cl, i, p.val)
         ELSE /\ fate' = Settle(cl, 0)
              /\ UNCHANGED <<buf, taken>>
  BY <1>0 DEF Meet, DoCancelOne
<1>8. err \in {"0", "EMSGSIZE"}
  BY DEF PeerError
<1>9. q \in Seq(Crs) /\ NoDup(q) /\ Range(q) = {d}
  BY <1>3, RangeSmall
<1>10. f \in [Crs -> Results]
  <2> HIDE DEF err
  <2> QED BY <1>5, <1>8 DEF Result, Results, Errors
<1>11. Triggers(q, f)
  <2> HIDE DEF q, f
  <2> QED BY <1>2, <1>3, <1>7, <1>9, <1>10 DEF Triggers
<1>12. Meeting(cl, i, d, j)
  BY <1>0, <1>2, <1>4, <1>5, <1>6, <1>7, <1>11 DEF Meeting
<1> QED BY <1>3, <1>5, <1>12

\* The message goes from one side to the other.
LEMMA MeetInv ==
  ASSUME ChanInv, Alive, NEW c \in Crs, NEW cl, FreshClauses(cl), NEW i \in DOMAIN cl,
         half[cl[i].h] = "open", Target(cl[i]) \notin chdone, Decided(cl[i]),
         Meet(c, cl, i), UNCHANGED <<r, ret, nb1, now, lastPoll, crVars, half, chdone, cls>>
  PROVE  ChanInv'
<1> DEFINE k == cl[i]
           e == PeerList(k)
<1>1. ListsInv /\ MessagesInv /\ ChanTypeOK /\ TypeOK
  BY DEF ChanInv, ListsInv, IInv
<1>2. k \in Clauses /\ k.op \in {"send", "recv"}
  BY FreshFacts, ClauseFacts
<1>3. PICK d \in Crs, j \in Nat \ {0} : Meeting(cl, i, d, j)
  BY <1>1, MeetFacts
<1> DEFINE p == cls[d][j]
           err == PeerError(k, p)
           q == <<d>>
           f == [x \in Crs |-> Result(j - 1, err)]
<1>4. Suspended(d) /\ call[d] = InExt
  BY <1>3 DEF Meeting
<1>5. j \in DOMAIN cls[d]
  BY <1>3 DEF Meeting
<1>6. (k.op = "send" => p.op = "recv") /\ (k.op = "recv" => p.op = "send")
  BY <1>3 DEF Meeting
<1>7. IF k.len = p.len
      THEN /\ buf' = IF k.op = "send" THEN [buf EXCEPT ![d] = k.val] ELSE buf
           /\ fate' = Settle(cl, i)
           /\ taken' = Take(cl, i, p.val)
      ELSE /\ fate' = Settle(cl, 0)
           /\ UNCHANGED <<buf, taken>>
  BY <1>3 DEF Meeting
<1>8. err \in {"0", "EMSGSIZE"} /\ (k.len = p.len <=> err = "0")
  BY DEF PeerError
<1>9. q \in Seq(Crs) /\ NoDup(q) /\ Range(q) = {d}
  BY RangeSmall
<1>10. \A x \in Crs : f[x] = Result(j - 1, err)
  OBVIOUS
<1>11. Triggers(q, f)
  BY <1>3 DEF Meeting
<1> HIDE DEF p, err, e, q, f
<1>12. NobodyLeftBehind'
  <2>1. \A a \in Endpoints : wq[a] = <<>> => wq'[a] = <<>>
    <3> SUFFICES ASSUME NEW a \in Endpoints, wq[a] = <<>> PROVE wq'[a] = <<>>
      OBVIOUS
    <3>1. Range(wq'[a]) \subseteq Range(wq[a]) /\ wq'[a] \in Seq(Crs) /\ wq[a] \in Seq(Crs)
      BY <1>1, <1>11, TriggerFacts DEF TypeOK
    <3>2. /\ wq[a] = <<>> <=> Range(wq[a]) = {}
          /\ wq'[a] = <<>> <=> Range(wq'[a]) = {}
      BY <3>1, RangeDef
    <3> QED BY <3>1, <3>2
  <2> QED BY <1>1, <2>1, HalfFacts DEF ListsInv, NobodyLeftBehind
<1>13. /\ buf' \in [Crs -> Msgs \cup {NoMsg}] /\ taken' \in [Msgs -> Nat]
       /\ fate' \in [Msgs -> {"unsent", "pending", "ok", "failed"}]
       /\ \A x \in Crs : call[x] # InExt => buf'[x] = buf[x]
  <2>1. k.val \in Msgs \cup {NoMsg} /\ buf \in [Crs -> Msgs \cup {NoMsg}] /\ taken \in [Msgs -> Nat]
    BY <1>1, <1>2, ClauseFacts DEF ChanTypeOK
  <2>2. taken' \in [Msgs -> Nat] /\ fate' \in [Msgs -> {"unsent", "pending", "ok", "failed"}]
    <3>1. /\ Settle(cl, 0) \in [Msgs -> {"unsent", "pending", "ok", "failed"}]
          /\ Settle(cl, i) \in [Msgs -> {"unsent", "pending", "ok", "failed"}]
          /\ Take(cl, i, p.val) \in [Msgs -> Nat]
      BY <1>1, BookTypes
    <3> QED BY <1>7, <2>1, <3>1
  <2> HIDE DEF k
  <2> QED BY <1>3, <1>4, <1>7, <2>1, <2>2
<1>14. \A h \in Halves : half'[h] = "none" => half'[Other(h)] = "none"
  BY <1>1 DEF ListsInv, CallsCoherent
<1>15. half' \in [Halves -> {"none", "open", "closed"}] /\ chdone' \subseteq Halves
  BY <1>1 DEF ChanTypeOK
<1>16. ListsInv' /\ Alive'
  BY <1>1, <1>11, <1>12, <1>13, <1>14, <1>15, TriggeredLists
<1>17. CASE k.len # p.len
  <2>1. \A x \in Range(q) : f[x].err # "0"
    BY <1>3, <1>8, <1>9, <1>10, <1>17 DEF Result
  <2>2. \A x \in Crs : \A n : Given(x, n)' <=> Given(x, n)
    BY <1>1, <1>11, <2>1, TriggerErrors
  <2>3. MessagesInv'
    BY <1>1, <1>7, <1>17, <2>2, FailedMessages
  <2> QED BY <1>16, <2>3 DEF ChanInv
<1>18. CASE k.len = p.len
  <2>1. /\ Range(ready') = Range(ready) \cup {d} /\ r' = r /\ ret' = ret
        /\ res'[d] = Result(j - 1, "0") /\ \A x \in Crs \ {d} : res'[x] = res[x]
    BY <1>1, <1>8, <1>9, <1>10, <1>11, <1>18, TriggerFacts DEF Triggers
  <2>2. Tells(d, j)
    <3>1. \A n \in DOMAIN cls[d] : n \in Int
      BY <1>1, <1>3, ClsFacts
    <3>2. r # d
      BY <1>4 DEF Suspended
    <3>3. \A n \in Int : Result(j - 1, "0") = Result(n - 1, "0") <=> n = j
      BY <1>5 DEF Result
    <3>4. \A n \in DOMAIN cls[d] : Given(d, n)' <=> n = j
      BY <2>1, <3>1, <3>2, <3>3 DEF Given
    <3> QED BY <2>1, <3>4 DEF Tells, Given
  <2>3. fate' = Settle(cl, i) /\ i # 0
    BY <1>7, <1>18, FreshFacts
  <2>4. CASE k.op = "send"
    <3>1. p.op = "recv" /\ taken' = taken /\ buf' = [buf EXCEPT ![d] = k.val]
      BY <1>6, <1>7, <1>18, <2>4 DEF Take
    <3> QED BY <1>1, <1>3, <1>4, <1>5, <1>16, <2>2, <2>3, <2>4, <3>1, SentMessages
            DEF ChanInv, p
  <2>5. CASE k.op = "recv"
    <3>1. p.op = "send" /\ buf' = buf /\ taken' = [taken EXCEPT ![p.val] = @ + 1]
      BY <1>6, <1>7, <1>18, <2>3, <2>5 DEF Take
    <3> QED BY <1>1, <1>3, <1>4, <1>5, <1>16, <2>2, <2>3, <2>5, <3>1, ReceivedMessages
            DEF ChanInv, p
  <2> QED BY <1>2, <2>4, <2>5
<1> QED BY <1>17, <1>18

\* A call that is decided at once.
LEMMA ChCallNowInv ==
  ASSUME ChanInv, Alive, NEW c \in Crs, NEW cl, FreshClauses(cl), ChCallNow(c, cl)
  PROVE  ChanInv'
<1> DEFINE i == FirstDecided(cl)
<1>1. i \in DOMAIN cl /\ Decided(cl[i])
  BY FirstDecidedFacts DEF ChCallNow
<1>2. UNCHANGED <<r, ret, nb1, now, lastPoll, crVars, half, chdone, cls>>
  BY DEF ChCallNow
<1>3. CASE half[cl[i].h] # "open" \/ Target(cl[i]) \in chdone
  <2>1. fate' = Settle(cl, 0) /\ UNCHANGED <<ready, res, timers, tm, wq, abort, buf, taken>>
    BY <1>3 DEF ChCallNow
  <2>2. UNCHANGED vars
    BY <1>2, <2>1 DEF vars, schedVars
  <2> QED BY <1>2, <2>1, <2>2, RefusedInv
<1>4. CASE half[cl[i].h] = "open" /\ Target(cl[i]) \notin chdone
  <2>1. Meet(c, cl, i)
    BY <1>4 DEF ChCallNow
  <2> HIDE DEF i
  <2> QED BY <1>1, <1>2, <1>4, <2>1, MeetInv
<1> QED BY <1>3, <1>4

\* A call for which no clause is decided.
LEMMA ChCallLaterInv ==
  ASSUME ChanInv, NEW c \in Crs, User(c), CanBlock(c), NEW cl, FreshClauses(cl),
         NEW delay \in Int, ChCallLater(c, cl, delay)
  PROVE  ChanInv'
<1>1. /\ Alive /\ r = c /\ call[c] = Idle /\ c \notin nb1 /\ ListsInv /\ MessagesInv /\ IInv
      /\ TypeOK /\ ChanTypeOK
  BY DEF User, Running, CanBlock, ChanInv, ListsInv, IInv
<1>2. /\ \A i \in DOMAIN cl : ~Decided(cl[i])
      /\ UNCHANGED <<half, chdone, buf, taken>>
  BY DEF ChCallLater
<1>3. CASE delay = 0
  <2>1. fate' = Settle(cl, 0) /\ UNCHANGED <<vars, cls>>
    BY <1>3 DEF ChCallLater
  <2>2. UNCHANGED vars /\ cls' = cls
    BY <2>1
  <2> QED BY <1>1, <1>2, <2>1, <2>2, RefusedInv
<1>4. CASE delay # 0
  <2>1. /\ wq' = [e \in Endpoints |-> Joined(e, cl, c)]
        /\ SetTimer(c, Len(cl), Deadline(delay))
        /\ Suspend
        /\ call' = [call EXCEPT ![c] = InExt]
        /\ cls' = [cls EXCEPT ![c] = cl]
        /\ fate' = [m \in Msgs |->
                      IF \E i \in DOMAIN cl : cl[i].op = "send" /\ cl[i].val = m
                      THEN "pending" ELSE fate[m]]
        /\ UNCHANGED <<ready, res, nb1, now, lastPoll, abort,
                       live, done, closer, owner, crs, waiter>>
    BY <1>4 DEF ChCallLater
  <2>2. cl \in Seq(Clauses) /\ Len(cl) \in Nat /\ \A i \in DOMAIN cl : cl[i] \in Clauses
    BY FreshFacts
  <2>3. \A e \in Endpoints : wq[e] \in Seq(Crs) /\ NoDup(wq[e]) /\ c \notin Range(wq[e])
    BY <1>1, Linked DEF TypeOK, ListsInv, ClausesSound
  <2> DEFINE J(e) == \E i \in DOMAIN cl : OwnList(cl[i]) = e
  <2>4. ASSUME NEW e \in Endpoints
        PROVE  /\ wq'[e] \in Seq(Crs) /\ NoDup(wq'[e])
               /\ Range(wq'[e]) = IF J(e) THEN Range(wq[e]) \cup {c} ELSE Range(wq[e])
               /\ ~J(e) => wq'[e] = wq[e]
    <3>1. wq'[e] = IF J(e) THEN Append(wq[e], c) ELSE wq[e]
      BY <2>1 DEF Joined
    <3> DEFINE g == wq[e]
    <3>2. g \in Seq(Crs) /\ NoDup(g) /\ c \notin Range(g)
      BY <2>3
    <3> HIDE DEF J, g
    <3>3. /\ Append(g, c) = g \o <<c>> /\ g \o <<c>> \in Seq(Crs) /\ NoDup(g \o <<c>>)
          /\ Range(g \o <<c>>) = Range(g) \cup {c}
      BY <3>2, RangePush
    <3>4. Append(g, c) \in Seq(Crs) /\ NoDup(Append(g, c)) /\ Range(Append(g, c)) = Range(g) \cup {c}
      BY <3>3
    <3> QED BY <3>1, <3>2, <3>4 DEF g
  <2>4a. /\ \A e \in Endpoints : Range(wq'[e]) \subseteq Range(wq[e]) \cup {c}
         /\ \A e \in Endpoints : Range(wq[e]) \subseteq Range(wq'[e])
         /\ \A e \in Endpoints : c \in Range(wq'[e]) <=> J(e)
    <3> HIDE DEF J
    <3> QED BY <2>3, <2>4
  <2>5. Deadline(delay) \in Int
    BY <1>1 DEF Deadline, Forever, TypeOK
  <2>6. wq' \in [Endpoints -> Seq(Crs)]
    BY <2>1, <2>4
  <2>7. IInv' /\ Alive'
    BY <1>1, <2>1, <2>2, <2>5, <2>6, BlockIInv DEF Alive
  <2>8. ChanTypeOK'
    <3>1. fate' \in [Msgs -> {"unsent", "pending", "ok", "failed"}]
      <4>1. \A m \in Msgs : fate[m] \in {"unsent", "pending", "ok", "failed"}
        BY <1>1 DEF ChanTypeOK
      <4> QED BY <2>1, <4>1, Zenon
    <3>2. cls' \in [Crs -> Seq(Clauses)]
      BY <1>1, <2>1, <2>2 DEF ChanTypeOK
    <3> QED BY <1>1, <1>2, <2>7, <3>1, <3>2 DEF ChanTypeOK, IInv
  <2>9. /\ call'[c] = InExt /\ cls'[c] = cl /\ r' = NoCr /\ c \in live \ done
        /\ \A x \in Crs \ {c} : call'[x] = call[x] /\ cls'[x] = cls[x]
        /\ c \notin Range(ready) /\ \A x \in Crs : r' # x
        /\ call[c] # InExt
    BY <1>1, <2>1, SchedAssumption, FrameTypes
    DEF ChanTypeOK, TypeOK, Suspend, IInv, ReadyQueueSound
  <2>10. \A x \in Crs : Suspended(x)' <=> Suspended(x) \/ x = c
    BY <1>1, <2>1, <2>9 DEF Suspended
  <2>11. CallsCoherent'
    <3>1. \A i \in DOMAIN cl : IF cl[i].op = "send" THEN cl[i].val \in Msgs ELSE cl[i].val = NoMsg
      BY DEF FreshClauses
    <3>2. \A x \in Crs : call'[x] # InExt => cls'[x] = <<>> /\ buf'[x] = NoMsg
      BY <1>1, <1>2, <2>9 DEF ListsInv, CallsCoherent
    <3>3. \A x \in Crs : call'[x] = InExt => x \in live' \ done'
      BY <1>1, <2>1, <2>9 DEF ListsInv, CallsCoherent
    <3>4. \A x \in Crs : \A i \in DOMAIN cls'[x] :
            IF cls'[x][i].op = "send" THEN cls'[x][i].val \in Msgs ELSE cls'[x][i].val = NoMsg
      BY <1>1, <2>9, <3>1 DEF ListsInv, CallsCoherent
    <3>5. \A h \in Halves : half'[h] = "none" => half'[Other(h)] = "none"
      BY <1>1, <1>2 DEF ListsInv, CallsCoherent
    <3> QED BY <3>2, <3>3, <3>4, <3>5 DEF CallsCoherent
  <2>12. ClausesSound'
    <3> SUFFICES ASSUME NEW e \in Endpoints, NEW x \in Range(wq'[e])
                 PROVE  /\ Suspended(x)' /\ call'[x] = InExt /\ x \in live' \ done'
                        /\ \E i \in DOMAIN cls'[x] : OwnList(cls'[x][i]) = e
      BY <2>4 DEF ClausesSound
    <3>1. CASE x = c
      <4>1. J(e)
        BY <2>3, <2>4, <3>1
      <4> QED BY <2>1, <2>9, <2>10, <3>1, <4>1
    <3>2. CASE x # c
      <4>1. x \in Range(wq[e])
        BY <2>4a, <3>2
      <4>2. /\ x \in Crs /\ call[x] = InExt /\ Suspended(x) /\ x \in live \ done
            /\ \E i \in DOMAIN cls[x] : OwnList(cls[x][i]) = e
        BY <1>1, <4>1, Linked
      <4> QED BY <2>1, <2>9, <2>10, <3>2, <4>2
    <3> QED BY <3>1, <3>2
  <2>13. ClausesComplete'
    <3> SUFFICES ASSUME NEW x \in Crs, call'[x] = InExt, Suspended(x)', NEW i \in DOMAIN cls'[x]
                 PROVE  x \in Range(wq'[OwnList(cls'[x][i])])
      BY DEF ClausesComplete
    <3>1. CASE x = c
      <4>1. OwnList(cl[i]) \in Endpoints /\ J(OwnList(cl[i]))
        BY <2>9, <3>1, FreshFacts
      <4> QED BY <2>9, <2>4a, <3>1, <4>1
    <3>2. CASE x # c
      <4>1. OwnList(cls[x][i]) \in Endpoints /\ i \in DOMAIN cls[x]
        BY <1>1, <2>9, <3>2, ClsFacts, ClauseFacts
      <4>2. x \in Range(wq[OwnList(cls[x][i])])
        BY <1>1, <2>9, <2>10, <3>2, <4>1 DEF ListsInv, ClausesComplete
      <4> QED BY <2>9, <2>4a, <3>2, <4>1, <4>2
    <3> QED BY <3>1, <3>2
  <2>14. ASSUME NEW h \in Halves
         PROVE  /\ J(In(h)) => h \notin chdone /\ half[h] # "none" /\ wq[Out(h)] = <<>>
                /\ J(Out(h)) => h \notin chdone /\ half[h] # "none" /\ wq[In(h)] = <<>>
    <3>1. ASSUME NEW i \in DOMAIN cl, OwnList(cl[i]) = In(h)
          PROVE  h \notin chdone /\ half[h] # "none" /\ wq[Out(h)] = <<>>
      <4>1. cl[i].op = "recv" /\ Target(cl[i]) = h /\ cl[i].h = h /\ PeerList(cl[i]) = Out(h)
        BY <2>2, <3>1, ClauseFacts
      <4> QED BY <1>2, <4>1 DEF Decided
    <3>2. ASSUME NEW i \in DOMAIN cl, OwnList(cl[i]) = Out(h)
          PROVE  h \notin chdone /\ half[h] # "none" /\ wq[In(h)] = <<>>
      <4>1. /\ cl[i].op = "send" /\ Target(cl[i]) = h /\ Other(cl[i].h) = h
            /\ PeerList(cl[i]) = In(h) /\ cl[i].h \in Halves
        BY <2>2, <3>2, ClauseFacts
      <4>2. cl[i].h = Other(h)
        BY <4>1, HalfFacts
      <4> QED BY <1>1, <1>2, <4>1, <4>2 DEF Decided, ListsInv, CallsCoherent
    <3> QED BY <3>1, <3>2
  <2>15. NobodyLeftBehind'
    <3> SUFFICES ASSUME NEW h \in Halves, h \in chdone \/ half[h] = "none"
                 PROVE  wq'[In(h)] = <<>> /\ wq'[Out(h)] = <<>>
      BY <1>2 DEF NobodyLeftBehind
    <3>1. In(h) \in Endpoints /\ Out(h) \in Endpoints /\ ~J(In(h)) /\ ~J(Out(h))
      BY <2>14, HalfFacts
    <3>2. wq[In(h)] = <<>> /\ wq[Out(h)] = <<>>
      BY <1>1 DEF ListsInv, NobodyLeftBehind
    <3> QED BY <2>4, <3>1, <3>2
  <2>16. NoMissedRendezvous'
    <3> SUFFICES ASSUME NEW h \in Halves, NEW s \in Range(wq'[Out(h)]), NEW t \in Range(wq'[In(h)])
                 PROVE  s = t
      BY DEF NoMissedRendezvous
    <3>1. In(h) \in Endpoints /\ Out(h) \in Endpoints /\ Range(<<>>) = {}
      BY HalfFacts, RangeSmall
    <3>2. s # c => s \in Range(wq[Out(h)])
      BY <2>4a, <3>1
    <3>3. t # c => t \in Range(wq[In(h)])
      BY <2>4a, <3>1
    <3>4. s = c => J(Out(h))
      BY <2>4a, <3>1
    <3>5. t = c => J(In(h))
      BY <2>4a, <3>1
    <3> QED BY <1>1, <2>14, <3>1, <3>2, <3>3, <3>4, <3>5 DEF ListsInv, NoMissedRendezvous
  <2>17. ListsInv'
    BY <2>7, <2>8, <2>11, <2>12, <2>13, <2>15, <2>16 DEF ListsInv
  <2>18. /\ \A x \in Crs \ {c} : \A i \in DOMAIN cls[x] : (Given(x, i)' <=> Given(x, i))
         /\ \A i : ~Given(c, i)'
    BY <1>1, <2>1, <2>9 DEF Given
  <2>19. MessagesInv'
    BY <1>1, <1>2, <2>1, <2>9, <2>18, PendingMessages
  <2> QED BY <2>17, <2>19 DEF ChanInv
<1> QED BY <1>3, <1>4

\* chsend(), chrecv() or choose() returns after its dill_wait.
LEMMA ChReturnInv ==
  ASSUME ChanInv, NEW c \in Crs, ChReturn(c) PROVE ChanInv'
<1>1. /\ Alive /\ r = c /\ call[c] = InExt /\ ListsInv /\ MessagesInv /\ IInv /\ TypeOK /\ ChanTypeOK
      /\ fate' = Settle(cls[c], Served(c)) /\ taken' = Take(cls[c], Served(c), buf[c])
      /\ buf' = [buf EXCEPT ![c] = NoMsg] /\ cls' = [cls EXCEPT ![c] = <<>>]
      /\ call' = [call EXCEPT ![c] = Idle]
      /\ UNCHANGED <<schedVars, live, done, closer, owner, crs, waiter, half, chdone>>
  BY DEF ChReturn, Running, ChanInv, ListsInv, IInv
<1>2. UNCHANGED <<r, ret, ready, res, timers, tm, wq, nb1, now, lastPoll, abort>> /\ Alive'
  BY <1>1 DEF schedVars, Alive
<1>3. /\ \A x \in Crs \ {c} : call'[x] = call[x] /\ cls'[x] = cls[x] /\ buf'[x] = buf[x]
      /\ call'[c] = Idle /\ cls'[c] = <<>> /\ buf'[c] = NoMsg
      /\ Idle.op = "none" /\ call[c].op = "ext" /\ Idle # InExt
  BY <1>1, FrameTypes DEF ChanTypeOK, TypeOK
<1>4. IInv'
  <2>1. TypeOK'
    BY <1>1, <1>2, FrameTypes DEF TypeOK
  <2>2. ReadyQueueSound'
    BY <1>1, <1>2 DEF IInv, ReadyQueueSound
  <2>3. NoOrphans'
    BY <1>1, <1>2 DEF IInv, NoOrphans, Open
  <2>4. CloseCoherent'
    BY <1>1, <1>2, <1>3, SchedAssumption DEF IInv, CloseCoherent, TypeOK, Ptr
  <2>5. WaitCoherent'
    BY <1>1, <1>2, <1>3, SchedAssumption DEF IInv, WaitCoherent, TypeOK, Ptr
  <2>6. CanceledNeverBlocks' /\ CloseNotForgotten' /\ WaitNotForgotten'
    BY <1>1, <1>2, <1>3 DEF IInv, CanceledNeverBlocks, CloseNotForgotten,
       WaitNotForgotten, Suspended, TypeOK
  <2>7. FreedOnlyFinished'
    BY <1>1, <1>2, <1>3, NoAnswer
  <2> QED BY <2>1, <2>2, <2>3, <2>4, <2>5, <2>6, <2>7 DEF IInv
<1>5. ChanTypeOK'
  <2>1. fate' \in [Msgs -> {"unsent", "pending", "ok", "failed"}] /\ taken' \in [Msgs -> Nat]
    BY <1>1, BookTypes
  <2>2. cls' \in [Crs -> Seq(Clauses)] /\ buf' \in [Crs -> Msgs \cup {NoMsg}]
    BY <1>1 DEF ChanTypeOK
  <2> QED BY <1>1, <1>4, <2>1, <2>2 DEF ChanTypeOK, IInv
<1>6. CallsCoherent'
  <2>1. \A x \in Crs : call'[x] # InExt => cls'[x] = <<>> /\ buf'[x] = NoMsg
    BY <1>1, <1>3 DEF ListsInv, CallsCoherent
  <2>2. \A x \in Crs : call'[x] = InExt => x \in live' \ done'
    BY <1>1, <1>3 DEF ListsInv, CallsCoherent
  <2>3. \A x \in Crs : \A i \in DOMAIN cls'[x] :
          IF cls'[x][i].op = "send" THEN cls'[x][i].val \in Msgs ELSE cls'[x][i].val = NoMsg
    BY <1>1, <1>3 DEF ListsInv, CallsCoherent
  <2>4. \A h \in Halves : half'[h] = "none" => half'[Other(h)] = "none"
    BY <1>1 DEF ListsInv, CallsCoherent
  <2> QED BY <2>1, <2>2, <2>3, <2>4 DEF CallsCoherent
<1>7. \A e \in Endpoints : \A x \in Range(wq[e]) :
         /\ x \in Crs \ {c} /\ call[x] = InExt /\ Suspended(x) /\ x \in live \ done
         /\ \E i \in DOMAIN cls[x] : OwnList(cls[x][i]) = e
  BY <1>1, Linked
<1>8. ClausesSound'
  BY <1>1, <1>2, <1>3, <1>7 DEF ListsInv, ClausesSound, Suspended
<1>9. ClausesComplete'
  BY <1>1, <1>2, <1>3 DEF ListsInv, ClausesComplete, Suspended
<1>10. NobodyLeftBehind' /\ NoMissedRendezvous'
  BY <1>1, <1>2 DEF ListsInv, NobodyLeftBehind, NoMissedRendezvous
<1>11. ListsInv'
  BY <1>4, <1>5, <1>6, <1>8, <1>9, <1>10 DEF ListsInv
<1>12. \A x \in Crs : \A k : Given(x, k)' <=> Given(x, k)
  BY <1>2 DEF Given
<1>13. MessagesInv'
  BY <1>1, <1>12, ReturnedMessages
<1> QED BY <1>11, <1>13 DEF ChanInv

\* A step that wakes up everybody in some lists, with EPIPE.
LEMMA HangUpInv ==
  ASSUME ChanInv, Alive, NEW q \in Seq(Crs), NoDup(q), NEW es \in Seq(Endpoints),
         \A x \in Range(q) : \E i \in DOMAIN es : x \in Range(wq[es[i]]),
         TriggerAll(q, es), UNCHANGED <<r, ret, nb1, now, lastPoll, crVars>>,
         UNCHANGED <<cls, buf, fate, taken>>,
         half' \in [Halves -> {"none", "open", "closed"}], chdone' \subseteq Halves,
         \A h \in Halves : half'[h] = "none" => half'[Other(h)] = "none",
         \A h \in Halves : h \in chdone' \/ half'[h] = "none" =>
            \/ h \in chdone \/ half[h] = "none"
            \/ Range(wq[In(h)]) \cup Range(wq[Out(h)]) \subseteq Range(q)
  PROVE  ChanInv'
<1>1. ListsInv /\ MessagesInv /\ ChanTypeOK /\ TypeOK
  BY DEF ChanInv, ListsInv, IInv
<1>2. PICK f : Triggers(q, f) /\ \A x \in Range(q) : f[x].err # "0"
  BY <1>1, TriggerAllFacts
<1>3. \A e \in Endpoints : /\ Range(wq'[e]) = Range(wq[e]) \ Range(q)
                           /\ wq'[e] \in Seq(Crs) /\ wq[e] \in Seq(Crs)
  BY <1>1, <1>2, TriggerFacts DEF TypeOK
<1>4. NobodyLeftBehind'
  <2> SUFFICES ASSUME NEW h \in Halves, h \in chdone' \/ half'[h] = "none"
               PROVE  wq'[In(h)] = <<>> /\ wq'[Out(h)] = <<>>
    BY DEF NobodyLeftBehind
  <2>1. In(h) \in Endpoints /\ Out(h) \in Endpoints /\ Range(<<>>) = {}
    BY HalfFacts DEF Range
  <2>2. Range(wq'[In(h)]) = {} /\ Range(wq'[Out(h)]) = {}
    <3>1. CASE h \in chdone \/ half[h] = "none"
      BY <1>1, <1>3, <2>1, <3>1 DEF ListsInv, NobodyLeftBehind
    <3>2. CASE Range(wq[In(h)]) \cup Range(wq[Out(h)]) \subseteq Range(q)
      BY <1>3, <2>1, <3>2
    <3> QED BY <3>1, <3>2
  <2> QED BY <1>3, <2>1, <2>2, RangeDef
<1>5. ListsInv' /\ Alive'
  <2>1. /\ buf' \in [Crs -> Msgs \cup {NoMsg}] /\ taken' \in [Msgs -> Nat]
        /\ fate' \in [Msgs -> {"unsent", "pending", "ok", "failed"}]
    BY <1>1 DEF ChanTypeOK
  <2> QED BY <1>1, <1>2, <1>4, <2>1, TriggeredLists
<1>6. \A x \in Crs : \A k : Given(x, k)' <=> Given(x, k)
  BY <1>1, <1>2, TriggerErrors
<1>7. MessagesInv'
  BY <1>1, <1>6, SameMessages
<1> QED BY <1>5, <1>7 DEF ChanInv

\* dill_chdone.
LEMMA ChdoneInv ==
  ASSUME ChanInv, NEW c \in Crs, NEW h \in Halves, Chdone(c, h) PROVE ChanInv'
<1> DEFINE g == Other(h)
           q == Waiting(g)
           es == ListsOf(g)
<1>1. /\ Alive /\ ListsInv /\ chdone' = chdone \cup {g} /\ TriggerAll(q, es)
      /\ UNCHANGED <<r, ret, nb1, now, lastPoll, crVars>>
      /\ UNCHANGED <<half, cls, buf, fate, taken>>
  BY DEF Chdone, User, Running, ChanInv
<1>2. g \in Halves /\ In(g) \in Endpoints /\ Out(g) \in Endpoints
  BY HalfFacts
<1>3. /\ q \in Seq(Crs) /\ NoDup(q)
      /\ Range(q) = Range(wq[In(g)]) \cup Range(wq[Out(g)])
  BY <1>1, <1>2, WaitingFacts
<1>4. es \in Seq(Endpoints) /\ \A x \in Range(q) : \E i \in DOMAIN es : x \in Range(wq[es[i]])
  BY <1>1, <1>2, WaitingFound
<1> HIDE DEF g, q, es
<1>5. half' \in [Halves -> {"none", "open", "closed"}] /\ chdone' \subseteq Halves
  BY <1>1, <1>2 DEF ListsInv, ChanTypeOK
<1>6. \A a \in Halves : half'[a] = "none" => half'[Other(a)] = "none"
  BY <1>1 DEF ListsInv, CallsCoherent
<1>7. \A a \in Halves : a \in chdone' \/ half'[a] = "none" =>
         \/ a \in chdone \/ half[a] = "none"
         \/ Range(wq[In(a)]) \cup Range(wq[Out(a)]) \subseteq Range(q)
  BY <1>1, <1>3
<1> QED BY <1>1, <1>3, <1>4, <1>5, <1>6, <1>7, HangUpInv

\* dill_hclose of a half-channel.
LEMMA HcloseHalfInv ==
  ASSUME ChanInv, NEW c \in Crs, NEW h \in Halves, HcloseHalf(c, h) PROVE ChanInv'
<1>1. /\ Alive /\ ListsInv /\ MessagesInv /\ half[h] = "open" /\ ChanTypeOK
      /\ UNCHANGED <<r, ret, nb1, now, lastPoll, crVars>>
      /\ UNCHANGED <<chdone, cls, buf, fate, taken>>
      /\ half \in [Halves -> {"none", "open", "closed"}] /\ chdone \subseteq Halves
  BY DEF HcloseHalf, User, Running, ChanInv, ListsInv, ChanTypeOK
<1>2. Other(h) \in Halves /\ Other(h) # h /\ Other(Other(h)) = h
  BY HalfFacts
<1>3. \A a \in Halves : half[a] = "none" => half[Other(a)] = "none"
  BY <1>1 DEF ListsInv, CallsCoherent
<1>4. \A a \in Halves : Other(a) \in Halves /\ Other(Other(a)) = a
  BY HalfFacts
<1>5. CASE half[Other(h)] # "closed"
  <2>1. half' = [half EXCEPT ![h] = "closed"] /\ UNCHANGED <<ready, res, timers, tm, wq, abort>>
    BY <1>5 DEF HcloseHalf
  <2>2. UNCHANGED vars
    BY <1>1, <2>1 DEF vars, schedVars
  <2>3. ChanTypeOK'
    <3>1. TypeOK'
      BY <1>1, <2>2 DEF ChanTypeOK, TypeOK, vars, schedVars, crVars
    <3> QED BY <1>1, <2>1, <3>1 DEF ChanTypeOK
  <2>4. half[Other(h)] # "none"
    BY <1>1, <1>2, <1>3
  <2>5. \A a \in Halves : half'[a] = "none" => half'[Other(a)] = "none"
    BY <1>1, <1>2, <1>3, <1>4, <2>1, <2>4
  <2>6. \A a \in Halves : a \in chdone' \/ half'[a] = "none" => a \in chdone \/ half[a] = "none"
    BY <1>1, <2>1
  <2>7. ListsInv' /\ Alive' /\ \A x, k : Given(x, k)' <=> Given(x, k)
    BY <1>1, <2>2, <2>3, <2>5, <2>6, StillLists
  <2> QED BY <1>1, <2>7, SameMessages DEF ChanInv
<1>6. CASE half[Other(h)] = "closed"
  <2> DEFINE q == TermWaiting(h[1])
             es == ListsOf(<<h[1], 0>>) \o ListsOf(<<h[1], 1>>)
  <2>1. half' = [half EXCEPT ![h] = "none", ![Other(h)] = "none"] /\ TriggerAll(q, es)
    BY <1>6 DEF HcloseHalf
  <2>2. /\ q \in Seq(Crs) /\ NoDup(q) /\ es \in Seq(Endpoints)
        /\ \A x \in Range(q) : \E i \in DOMAIN es : x \in Range(wq[es[i]])
        /\ \A n \in {h, Other(h)} : Range(wq[In(n)]) \cup Range(wq[Out(n)]) \subseteq Range(q)
    BY <1>1, TermWaitingFound
  <2> HIDE DEF q, es
  <2>3. /\ half' \in [Halves -> {"none", "open", "closed"}]
        /\ half'[h] = "none" /\ half'[Other(h)] = "none"
        /\ \A n \in Halves \ {h, Other(h)} : half'[n] = half[n]
    BY <1>1, <1>2, <2>1
  <2>4. \A n \in Halves : half'[n] = "none" => half'[Other(n)] = "none"
    <3>1. \A n \in Halves \ {h, Other(h)} : Other(n) \in Halves \ {h, Other(h)}
      BY <1>2, <1>4
    <3> QED BY <1>2, <1>3, <2>3, <3>1
  <2>5. \A n \in Halves : n \in chdone' \/ half'[n] = "none" =>
          \/ n \in chdone \/ half[n] = "none"
          \/ Range(wq[In(n)]) \cup Range(wq[Out(n)]) \subseteq Range(q)
    BY <1>1, <2>2, <2>3
  <2>6. chdone' \subseteq Halves
    BY <1>1
  <2> QED BY <1>1, <2>1, <2>2, <2>3, <2>4, <2>5, <2>6, HangUpInv
<1> QED BY <1>5, <1>6

\* chsend(), chrecv() and choose().
LEMMA ChCallInv ==
  ASSUME ChanInv, NEW c \in Crs, NEW menu \in Seq(Shapes), NEW delay \in Int,
         ChCall(c, menu, delay)
  PROVE  ChanInv'
<1>1. User(c) /\ CanBlock(c) /\ Alive
  BY DEF ChCall, User, Running
<1>2. PICK cl \in Offers(menu) : ChCallNow(c, cl) \/ ChCallLater(c, cl, delay)
  BY DEF ChCall
<1>3. FreshClauses(cl)
  BY OfferFacts
<1> QED BY <1>1, <1>2, <1>3, ChCallNowInv, ChCallLaterInv

\* The calls of a step have clauses of the right shape.
LEMMA StepMenus ==
  ASSUME NEW c \in Crs, ChanStep(c)
  PROVE  \/ \E ch \in Chans : Chmake(c, ch)
         \/ \E menu \in Seq(Shapes), delay \in Int : ChCall(c, menu, delay)
         \/ ChReturn(c)
         \/ \E h \in Halves : Chdone(c, h)
         \/ \E h \in Halves : HcloseHalf(c, h)
<1>1. \A op \in {"send", "recv"}, h \in Halves, len \in CallLens :
        <<[op |-> op, h |-> h, len |-> len]>> \in Seq(Shapes)
  BY ChanAssumption DEF Shapes
<1>2. ASSUME NEW h \in Halves, NEW len \in CallLens, NEW delay \in ChanDelays,
             Chsend(c, h, len, delay) \/ Chrecv(c, h, len, delay)
      PROVE  \E menu \in Seq(Shapes), dl \in Int : ChCall(c, menu, dl)
  <2>1. delay \in Int
    BY ChanAssumption
  <2> QED BY <1>1, <1>2, <2>1 DEF Chsend, Chrecv
<1>3. ASSUME NEW menu \in Menus, NEW delay \in ChanDelays, Choose(c, menu, delay)
      PROVE  \E mn \in Seq(Shapes), dl \in Int : ChCall(c, mn, dl)
  BY <1>3, ChanAssumption DEF Choose
<1> QED BY <1>2, <1>3 DEF ChanStep

LEMMA ChanStepInv ==
  ASSUME ChanInv, NEW c \in Crs, ChanStep(c) PROVE ChanInv'
BY StepMenus, ChmakeInv, ChCallInv, ChReturnInv, ChdoneInv, HcloseHalfInv

LEMMA ChanNextInv == ChanInv /\ [ChanNext]_allVars => ChanInv'
<1> SUFFICES ASSUME ChanInv, ChanNext \/ UNCHANGED allVars PROVE ChanInv'
  OBVIOUS
<1>1. CASE UNCHANGED allVars
  BY <1>1, CrNextChanInv DEF allVars
<1>2. CASE Next /\ UNCHANGED chanVars
  BY <1>2, CrNextChanInv
<1>3. ASSUME NEW c \in Crs, ChanStep(c) PROVE ChanInv'
  BY <1>3, ChanStepInv
<1> QED BY <1>1, <1>2, <1>3 DEF ChanNext

\* The initial state.
LEMMA InitChanInv == ChanInit => ChanInv
<1> SUFFICES ASSUME ChanInit PROVE ChanInv
  OBVIOUS
<1>1. IInv /\ TypeOK
  BY InitIInv DEF ChanInit, IInv
<1>2. /\ \A c \in Crs : call[c] = Idle /\ cls[c] = <<>> /\ buf[c] = NoMsg
      /\ \A e \in Endpoints : wq[e] = <<>>
      /\ \A h \in Halves : half[h] = "none" /\ \A m \in Msgs : fate[m] = "unsent" /\ taken[m] = 0
      /\ chdone = {} /\ Idle # InExt /\ Range(<<>>) = {} /\ NoDup(<<>>)
  BY FrameTypes DEF ChanInit, Init, SchedInit, Range, NoDup
<1>3. ChanTypeOK
  <2>1. <<>> \in Seq(Clauses)
    OBVIOUS
  <2> QED BY <1>1, <2>1 DEF ChanTypeOK, ChanInit
<1>4. CallsCoherent
  BY <1>2, HalfFacts DEF CallsCoherent
<1>5. ClausesSound /\ ClausesComplete
  BY <1>2 DEF ClausesSound, ClausesComplete
<1>6. NobodyLeftBehind /\ NoMissedRendezvous
  BY <1>2, HalfFacts DEF NobodyLeftBehind, NoMissedRendezvous
<1>7. \A m \in Msgs : fate[m] = "unsent" /\ taken[m] = 0
  BY DEF ChanInit
<1>8. OneSender
  BY <1>2, <1>7 DEF OneSender, Offered
<1>9. BuffersExact
  BY <1>2 DEF BuffersExact
<1>10. OneCopy /\ SenderKnows
  BY <1>2, <1>7, ChanAssumption DEF OneCopy, SenderKnows, Delivered, Offered
<1> QED BY <1>1, <1>3, <1>4, <1>5, <1>6, <1>8, <1>9, <1>10 DEF ChanInv, ListsInv, MessagesInv

-----------------------------------------------------------------------------
(***************************************************************************)
(* The theorems.                                                           *)
(***************************************************************************)

\* The invariant of coroutines and bundles, and that of the channels, hold of
\* programs that use both: no rendezvous, chdone() or hclose() of a channel
\* disturbs the ready queue or the bundles.
THEOREM ChanInvariance == ChanSpec => [](IInv /\ ChanInv)
<1>1. ChanSpec => []ChanInv
  BY InitChanInv, ChanNextInv, PTL DEF ChanSpec
<1>2. ChanInv => IInv
  BY DEF ChanInv, ListsInv
<1> QED BY <1>1, <1>2, PTL

\* The lists of a half-channel hold the clauses of blocked coroutines, all of
\* them and nothing else: dill_trigger never touches a stack frame that is gone,
\* and chdone() and hclose() leave nobody waiting (chan.c).
THEOREM ListsExact == ChanSpec => []ClausesExact
<1>1. ChanInv => ClausesExact
  BY DEF ChanInv, ListsInv, ClausesExact
<1> QED BY <1>1, ChanInvariance, PTL

\* chsend() and chrecv() on the same channel never wait for each other, whatever
\* clauses choose() waits with.
THEOREM RendezvousNotMissed == ChanSpec => []NoMissedRendezvous
<1>1. ChanInv => NoMissedRendezvous
  BY DEF ChanInv, ListsInv
<1> QED BY <1>1, ChanInvariance, PTL

\* The number of copies of a message, counted as ExactlyOnce counts them.
LEMMA CopiesFacts ==
  ASSUME ChanInv, Alive, NEW m \in Msgs
  PROVE  Copies(m) = IF Delivered(m) THEN 1 ELSE 0
<1> DEFINE K == {c \in Crs : buf[c] = m /\ \E i \in DOMAIN cls[c] :
                               cls[c][i].op = "recv" /\ Woken(c, i)}
<1>1. \A c \in Crs : c \in K <=> buf[c] = m
  <2> SUFFICES ASSUME NEW c \in Crs, buf[c] = m PROVE c \in K
    OBVIOUS
  <2>1. buf[c] # NoMsg
    BY ChanAssumption
  <2>2. PICK i \in DOMAIN cls[c] : cls[c][i].op = "recv" /\ Given(c, i)
    BY <2>1 DEF ChanInv, MessagesInv, BuffersExact
  <2>3. call[c] = InExt
    BY <2>1 DEF ChanInv, ListsInv, CallsCoherent
  <2>4. Woken(c, i)
    BY <2>2, <2>3 DEF Woken, Given
  <2> QED BY <2>2, <2>4
<1>2. taken[m] \in {0, 1} /\ (taken[m] = 1 => K = {}) /\ \A c, d \in K : c = d
  BY <1>1 DEF ChanInv, MessagesInv, OneCopy
<1>3. Copies(m) = taken[m] + Cardinality(K)
  BY DEF Copies
<1>4. K \subseteq Crs /\ (Delivered(m) <=> taken[m] = 1 \/ K # {})
  BY <1>1 DEF Delivered
<1> HIDE DEF K
<1>5. CASE K = {}
  <2>1. Cardinality(K) = 0
    BY <1>5, FS_EmptySet
  <2> QED BY <1>2, <1>3, <1>4, <1>5, <2>1
<1>6. CASE K # {}
  <2>1. PICK c : K = {c}
    BY <1>2, <1>6
  <2>2. Cardinality(K) = 1
    BY <2>1, FS_Singleton
  <2>3. taken[m] = 0
    BY <1>2, <1>6
  <2> QED BY <1>3, <1>4, <1>6, <2>2, <2>3
<1> QED BY <1>5, <1>6

\* A message is received exactly once if chsend() or choose() reports that it
\* was sent, and never if it reports an error: no deadline, chdone(), hclose()
\* or cancelation can come between the copy and the two results (chan.c).
THEOREM MessagesExact == ChanSpec => []ExactlyOnce
<1>1. ASSUME ChanInv PROVE ExactlyOnce
  <2> SUFFICES ASSUME Alive, NEW m \in Msgs
               PROVE  Copies(m) =
                        CASE fate[m] = "ok" -> 1
                          [] fate[m] = "pending" ->
                               IF \E c \in Crs : \E i \in DOMAIN cls[c] :
                                     cls[c][i].val = m /\ Woken(c, i)
                               THEN 1 ELSE 0
                          [] OTHER -> 0
    BY DEF ExactlyOnce
  <2>1. Copies(m) = IF Delivered(m) THEN 1 ELSE 0
    BY <1>1, CopiesFacts
  <2> DEFINE W == \E c \in Crs : \E i \in DOMAIN cls[c] : cls[c][i].val = m /\ Woken(c, i)
  <2>2. Delivered(m) <=> \/ fate[m] = "ok"
                         \/ \E c \in Crs : \E i \in DOMAIN cls[c] : Offered(m, c, i) /\ Given(c, i)
    BY <1>1 DEF ChanInv, MessagesInv, SenderKnows
  <2>3. \A c \in Crs : \A i \in DOMAIN cls[c] : Offered(m, c, i) => fate[m] = "pending"
    BY <1>1 DEF ChanInv, MessagesInv, OneSender
  <2>4. \A c \in Crs : \A i \in DOMAIN cls[c] :
          cls[c][i].val = m /\ Woken(c, i) <=> Offered(m, c, i) /\ Given(c, i)
    BY <1>1 DEF ChanInv, ListsInv, CallsCoherent, Offered, Woken, Given
  <2>5. W <=> \E c \in Crs : \E i \in DOMAIN cls[c] : Offered(m, c, i) /\ Given(c, i)
    BY <2>4
  <2>6. Delivered(m) <=> fate[m] = "ok" \/ (fate[m] = "pending" /\ W)
    BY <2>2, <2>3, <2>5
  <2> HIDE DEF W
  <2>7. CASE fate[m] = "ok"
    BY <2>1, <2>6, <2>7
  <2>8. CASE fate[m] = "pending"
    BY <2>1, <2>6, <2>8 DEF W
  <2>9. CASE fate[m] # "ok" /\ fate[m] # "pending"
    BY <2>1, <2>6, <2>9
  <2> QED BY <2>7, <2>8, <2>9
<1> QED BY <1>1, ChanInvariance, PTL

-----------------------------------------------------------------------------
(***************************************************************************)
(* Fairness of the lists. The two parts of FirstComeFirstServed:           *)
(***************************************************************************)

NobodyOvertakes(e) ==
  \A i, j \in DOMAIN wq'[e] :
     i < j /\ wq'[e][j] \in Range(wq[e])
       => \E k, l \in DOMAIN wq[e] :
             k < l /\ wq[e][k] = wq'[e][i] /\ wq[e][l] = wq'[e][j]

ServedInTurn(e) ==
  \A i, j \in DOMAIN wq[e] :
     i < j /\ wq[e][i] \in Range(wq'[e])
       => ~(/\ wq[e][j] \in Range(ready') \ Range(wq'[e])
            /\ res'[wq[e][j]] = Result(ClauseIn(wq[e][j], e) - 1, "0"))

\* Some coroutines were erased from all lists, or none.
Erased == wq' = wq \/ \E S : wq' = [e \in Endpoints |-> Without(wq[e], S)]

LEMMA SameOrder ==
  ASSUME wq' = wq, NEW e PROVE NobodyOvertakes(e) /\ ServedInTurn(e)
BY DEF NobodyOvertakes, ServedInTurn, Range

LEMMA ErasedOrder ==
  ASSUME TypeOK, Erased, NEW e \in Endpoints PROVE NobodyOvertakes(e)
<1>1. CASE wq' = wq
  BY <1>1, SameOrder
<1>2. ASSUME NEW S, wq' = [a \in Endpoints |-> Without(wq[a], S)] PROVE NobodyOvertakes(e)
  <2> DEFINE q == wq[e]
             w == Without(wq[e], S)
  <2>1. q \in Seq(Crs) /\ wq'[e] = w
    BY <1>2 DEF TypeOK
  <2>2. w \in Seq(Crs) /\ \A i, j \in 1..Len(w) : i < j =>
            \E k, l \in 1..Len(q) : k < l /\ q[k] = w[i] /\ q[l] = w[j]
    <3>1. w \in Seq(Crs)
      BY <2>1, WithoutFacts
    <3>2. \A i, j \in 1..Len(Without(q, S)) : i < j => \E k, l \in 1..Len(q) :
             k < l /\ q[k] = Without(q, S)[i] /\ q[l] = Without(q, S)[j]
      <4> HIDE DEF q, w
      <4> QED BY <2>1, WithoutOrder
    <3> QED BY <3>1, <3>2
  <2> HIDE DEF q, w
  <2>3. DOMAIN w = 1..Len(w) /\ DOMAIN q = 1..Len(q)
    BY <2>1, <2>2
  <2>4. \A i, j \in DOMAIN w : i < j => \E k, l \in DOMAIN q : k < l /\ q[k] = w[i] /\ q[l] = w[j]
    BY <2>2, <2>3
  <2> QED BY <2>1, <2>4 DEF NobodyOvertakes, q
<1> QED BY <1>1, <1>2 DEF Erased

\* Nobody in a list is told of a success.
LEMMA NoNewsInTurn ==
  ASSUME ListsInv, Alive, NEW e \in Endpoints,
         \A x \in Crs : call[x] = InExt => \A i \in Int : Given(x, i)' <=> Given(x, i)
  PROVE  ServedInTurn(e)
<1> SUFFICES ASSUME NEW j \in DOMAIN wq[e], wq[e][j] \in Range(ready'),
                    res'[wq[e][j]] = Result(ClauseIn(wq[e][j], e) - 1, "0")
             PROVE  FALSE
  BY DEF ServedInTurn
<1>1. PICK x, n : x = wq[e][j] /\ n = ClauseIn(x, e)
  OBVIOUS
<1>2. x \in Range(wq[e])
  BY <1>1 DEF Range
<1>3. x \in Crs /\ call[x] = InExt /\ Suspended(x) /\ \E i \in DOMAIN cls[x] : OwnList(cls[x][i]) = e
  BY <1>2, Linked
<1>4. n \in Int
  <2>1. n \in DOMAIN cls[x]
    BY <1>1, <1>3, ClauseInFacts DEF ListsInv
  <2> QED BY <1>3, <2>1, ClsFacts DEF ListsInv
<1>5. ~Given(x, n)
  BY <1>3, NotGiven
<1>6. Given(x, n)'
  BY <1>1 DEF Given
<1> QED BY <1>3, <1>4, <1>5, <1>6

\* Outside of the channels clauses are only canceled.
LEMMA DoCancelErases ==
  ASSUME NEW q, NEW f, DoCancel(q, f) PROVE Erased
BY DEF DoCancel, CancelClauses, Erased

LEMMA CrErases ==
  ASSUME Next PROVE Erased
<1>1. CASE Kernel
  <2>1. CASE PollAndRun
    BY <2>1 DEF PollAndRun, CancelClauses, Erased
  <2> QED BY <1>1, <2>1 DEF Kernel, RunReady, Tick, Crashed, schedVars, Erased
<1>2. ASSUME NEW c \in Crs, UserStep(c) PROVE Erased
  <2>1. ASSUME NEW b, NEW q, NEW F, CloseRest(c, b, q, F) PROVE Erased
    <3>1. CASE q # <<>> /\ IsBlocked(Head(q))
      BY <2>1, <3>1, DoCancelErases DEF CloseRest, DoCancelOne
    <3> QED BY <2>1, <3>1 DEF CloseRest, Erased
  <2>2. CASE HcloseResume(c)
    BY <2>1, <2>2 DEF HcloseResume, Erased
  <2>3. CASE Return(c)
    BY <2>3, DoCancelErases DEF Return
  <2>4. ASSUME NEW b \in Bundles, Hclose(c, b) PROVE Erased
    BY <2>1, <2>4 DEF Hclose
  <2>5. ASSUME NEW b \in Bundles, NEW d \in Crs, Go(c, b, d) \/ BundleGo(c, b, d) PROVE Erased
    BY <2>5 DEF Go, BundleGo, Launch, Erased
  <2>6. CASE Yield(c) \/ BundleWaitReturn(c)
    BY <2>6 DEF Yield, BundleWaitReturn, Erased
  <2>7. ASSUME NEW b \in Bundles, Bundle(c, b) PROVE Erased
    BY <2>7 DEF Bundle, schedVars, Erased
  <2>8. ASSUME NEW delay \in SleepDelays, Msleep(c, delay) PROVE Erased
    BY <2>8 DEF Msleep, Erased
  <2>9. ASSUME NEW b \in Bundles, NEW delay \in WaitDelays, BundleWait(c, b, delay) PROVE Erased
    BY <2>9 DEF BundleWait, Erased
  <2> QED BY <1>2, <2>2, <2>3, <2>4, <2>5, <2>6, <2>7, <2>8, <2>9 DEF UserStep
<1> QED BY <1>1, <1>2 DEF Next

LEMMA CrOrder ==
  ASSUME ChanInv, Next, NEW e \in Endpoints PROVE NobodyOvertakes(e) /\ ServedInTurn(e)
<1>1. ListsInv /\ TypeOK
  BY DEF ChanInv, ListsInv, IInv
<1>2. NobodyOvertakes(e)
  BY <1>1, CrErases, ErasedOrder
<1>3. CASE wq' = wq
  BY <1>3, SameOrder
<1>4. CASE Alive /\ Alive'
  <2>1. CrKeeps
    BY <1>1, <1>4, ListsExtSound, KernelKeeps, UserStepKeeps DEF Next
  <2> QED BY <1>1, <1>2, <1>4, <2>1, NoNewsInTurn DEF CrKeeps
<1>5. CASE ~Alive
  <2>1. ~\E c \in Crs : UserStep(c)
    BY <1>5 DEF UserStep, Bundle, Go, BundleGo, Yield, Msleep, BundleWait,
       BundleWaitReturn, Hclose, HcloseResume, Return, User, Running
  <2>2. wq' = wq
    BY <1>5, <2>1 DEF Next, Kernel, RunReady, PollAndRun, Tick, Crashed, schedVars
  <2> QED BY <2>2, SameOrder
<1>6. CASE Alive /\ ~Alive'
  <2>1. ASSUME NEW q, NEW f, DoCancel(q, f) PROVE wq' = wq
    BY <1>6, <2>1 DEF DoCancel, Alive
  <2>2. ASSUME Kernel PROVE wq' = wq
    BY <1>6, <2>2 DEF Kernel, RunReady, PollAndRun, Tick, Crashed, Alive
  <2>3. ASSUME NEW c \in Crs, UserStep(c) PROVE wq' = wq
    <3>1. ASSUME NEW b, NEW q, NEW F, CloseRest(c, b, q, F) PROVE wq' = wq
      <4>1. CASE q # <<>> /\ IsBlocked(Head(q))
        BY <2>1, <3>1, <4>1 DEF CloseRest, DoCancelOne
      <4> QED BY <3>1, <4>1 DEF CloseRest
    <3>2. CASE HcloseResume(c)
      BY <3>1, <3>2 DEF HcloseResume
    <3>3. CASE Return(c)
      BY <2>1, <3>3 DEF Return
    <3>4. ASSUME NEW b \in Bundles, Hclose(c, b) PROVE wq' = wq
      BY <3>1, <3>4 DEF Hclose
    <3>5. CASE BundleWaitReturn(c)
      BY <3>5 DEF BundleWaitReturn
    <3> QED BY <1>6, <2>3, <3>2, <3>3, <3>4, <3>5 DEF UserStep, Bundle, Go, BundleGo,
               Launch, Yield, Msleep, BundleWait, schedVars, Alive
  <2>4. wq' = wq
    BY <2>2, <2>3 DEF Next
  <2> QED BY <2>4, SameOrder
<1> QED BY <1>2, <1>4, <1>5, <1>6

\* A rendezvous is with the first in the list.
LEMMA MeetOrder ==
  ASSUME ListsInv, Alive, NEW cl, NEW i, NEW d \in Crs, NEW n \in Nat \ {0},
         Meeting(cl, i, d, n), NEW e \in Endpoints
  PROVE  NobodyOvertakes(e) /\ ServedInTurn(e)
<1> DEFINE q == <<d>>
           err == PeerError(cl[i], cls[d][n])
           f == [x \in Crs |-> Result(n - 1, err)]
<1>0. PICK e0 : e0 = PeerList(cl[i])
  OBVIOUS
<1>1. Triggers(q, f) /\ q = <<d>> /\ \A x \in Crs : f[x] = Result(n - 1, err)
  BY DEF Meeting
<1>2. /\ e0 \in Endpoints /\ wq[e0] # <<>> /\ d = Head(wq[e0]) /\ n = ClauseIn(d, e0)
      /\ n \in DOMAIN cls[d] /\ OwnList(cls[d][n]) = e0
  BY <1>0 DEF Meeting
<1> HIDE DEF q, f, err
<1>3. TypeOK /\ ChanTypeOK /\ wq[e0] \in Seq(Crs) /\ wq[e] \in Seq(Crs) /\ NoDup(wq[e])
  BY <1>2 DEF ListsInv, IInv, TypeOK, ClausesSound
<1>4. NobodyOvertakes(e)
  BY <1>1, <1>3, DoCancelErases, ErasedOrder DEF Triggers
<1>5. ASSUME NEW a \in DOMAIN wq[e], NEW b \in DOMAIN wq[e], a < b,
             wq[e][b] \in Range(ready'),
             res'[wq[e][b]] = Result(ClauseIn(wq[e][b], e) - 1, "0")
      PROVE  FALSE
  <2>1. PICK x, m : x = wq[e][b] /\ m = ClauseIn(x, e)
    OBVIOUS
  <2>2. x \in Range(wq[e])
    BY <2>1 DEF Range
  <2>3. x \in Crs /\ x \notin Range(ready) /\ \E k \in DOMAIN cls[x] : OwnList(cls[x][k]) = e
    BY <2>2, Linked
  <2>4. m \in DOMAIN cls[x] /\ OwnList(cls[x][m]) = e /\ m \in Nat
    BY <1>3, <2>1, <2>3, ClauseInFacts, ClsFacts
  <2>5. Range(q) = {d}
    BY <1>1, RangeSmall
  <2>6. x = d /\ res'[d] = f[d]
    BY <1>1, <1>5, <2>1, <2>3, <2>5, TriggerFacts
  <2>7. n = m
    BY <1>1, <1>5, <2>1, <2>4, <2>6 DEF Result
  <2>8. e = e0
    BY <1>2, <2>4, <2>6, <2>7
  <2>9. DOMAIN wq[e] = 1..Len(wq[e]) /\ wq[e][1] = d /\ 1 \in DOMAIN wq[e]
    BY <1>2, <1>3, <2>8
  <2>10. b = 1
    BY <1>3, <2>1, <2>6, <2>9 DEF NoDup
  <2> QED BY <1>3, <1>5, <2>9, <2>10
<1>6. ServedInTurn(e)
  BY <1>5 DEF ServedInTurn
<1> QED BY <1>4, <1>6

\* chdone() and hclose() tell everybody an error.
LEMMA HangUpOrder ==
  ASSUME ListsInv, Alive, NEW q \in Seq(Crs), NoDup(q), NEW es \in Seq(Endpoints),
         \A x \in Range(q) : \E i \in DOMAIN es : x \in Range(wq[es[i]]),
         TriggerAll(q, es), UNCHANGED <<r, ret, nb1, now, lastPoll, crVars>>,
         NEW e \in Endpoints
  PROVE  NobodyOvertakes(e) /\ ServedInTurn(e)
<1>1. PICK f : Triggers(q, f) /\ \A x \in Range(q) : f[x].err # "0"
  BY TriggerAllFacts
<1>2. NobodyOvertakes(e)
  BY <1>1, DoCancelErases, ErasedOrder DEF Triggers, ListsInv, IInv
<1>3. \A x \in Crs : \A k : Given(x, k)' <=> Given(x, k)
  BY <1>1, TriggerErrors
<1>4. ServedInTurn(e)
  BY <1>3, NoNewsInTurn
<1> QED BY <1>2, <1>4

\* Whoever blocks goes to the end of the lists.
LEMMA JoinOrder ==
  ASSUME ListsInv, Alive, NEW c \in Crs, r = c, NEW e \in Endpoints,
         wq'[e] = wq[e] \/ wq'[e] = Append(wq[e], c), ready' = ready
  PROVE  NobodyOvertakes(e) /\ ServedInTurn(e)
<1> DEFINE q == wq[e]
<1>1. /\ q \in Seq(Crs) /\ c \notin Range(q)
      /\ \A x \in Range(q) : x \notin Range(ready)
  BY Linked DEF ListsInv, ChanTypeOK, TypeOK
<1>2. ServedInTurn(e)
  <2>1. \A j \in DOMAIN wq[e] : wq[e][j] \notin Range(ready')
    BY <1>1 DEF Range
  <2> QED BY <2>1 DEF ServedInTurn
<1>3. CASE wq'[e] = q
  BY <1>2, <1>3 DEF NobodyOvertakes
<1>4. CASE wq'[e] = Append(q, c)
  <2> DEFINE w == Append(q, c)
  <2> HIDE DEF q
  <2>1. /\ DOMAIN q = 1..Len(q) /\ Len(q) \in Nat /\ DOMAIN w = 1..(Len(q) + 1)
        /\ w[Len(q) + 1] = c /\ \A i \in DOMAIN q : w[i] = q[i]
    BY <1>1
  <2> HIDE DEF w
  <2>2. ASSUME NEW i \in DOMAIN w, NEW j \in DOMAIN w, i < j, w[j] \in Range(q)
        PROVE  \E k, l \in DOMAIN q : k < l /\ q[k] = w[i] /\ q[l] = w[j]
    <3>1. j # Len(q) + 1
      BY <1>1, <2>1, <2>2
    <3>2. i \in DOMAIN q /\ j \in DOMAIN q
      BY <2>1, <2>2, <3>1
    <3> QED BY <2>1, <2>2, <3>2
  <2>3. wq'[e] = w
    BY <1>4 DEF w
  <2> QED BY <1>2, <2>2, <2>3 DEF NobodyOvertakes, q
<1> QED BY <1>3, <1>4

LEMMA ChCallOrder ==
  ASSUME ChanInv, NEW c \in Crs, NEW menu \in Seq(Shapes), NEW delay \in Int,
         ChCall(c, menu, delay), NEW e \in Endpoints
  PROVE  NobodyOvertakes(e) /\ ServedInTurn(e)
<1>1. Alive /\ ListsInv /\ r = c /\ wq \in [Endpoints -> Seq(Crs)]
  BY DEF ChCall, User, Running, ChanInv, ListsInv, ChanTypeOK, TypeOK
<1>2. PICK cl \in Offers(menu) : ChCallNow(c, cl) \/ ChCallLater(c, cl, delay)
  BY DEF ChCall
<1>3. FreshClauses(cl)
  BY OfferFacts
<1>4. CASE wq' = wq
  BY <1>4, SameOrder
<1>5. CASE ChCallNow(c, cl)
  <2> DEFINE i == FirstDecided(cl)
  <2>1. /\ i \in DOMAIN cl /\ Decided(cl[i])
        /\ UNCHANGED <<r, ret, nb1, now, lastPoll, crVars>>
    BY <1>3, <1>5, FirstDecidedFacts DEF ChCallNow
  <2>2. CASE half[cl[i].h] # "open" \/ Target(cl[i]) \in chdone
    BY <1>4, <1>5, <2>2 DEF ChCallNow
  <2>3. CASE half[cl[i].h] = "open" /\ Target(cl[i]) \notin chdone
    <3>1. Meet(c, cl, i)
      BY <1>5, <2>3 DEF ChCallNow
    <3> HIDE DEF i
    <3>2. PICK d \in Crs, n \in Nat \ {0} : Meeting(cl, i, d, n)
      BY <1>1, <1>3, <2>1, <2>3, <3>1, MeetFacts
    <3> QED BY <1>1, <3>2, MeetOrder
  <2> QED BY <2>2, <2>3
<1>6. CASE ChCallLater(c, cl, delay)
  <2>1. CASE delay = 0
    BY <1>4, <1>6, <2>1 DEF ChCallLater, vars, schedVars
  <2>2. CASE delay # 0
    <3>1. wq' = [a \in Endpoints |-> Joined(a, cl, c)] /\ ready' = ready
      BY <1>6, <2>2 DEF ChCallLater
    <3>2. wq'[e] = wq[e] \/ wq'[e] = Append(wq[e], c)
      BY <3>1 DEF Joined
    <3> QED BY <1>1, <3>1, <3>2, JoinOrder
  <2> QED BY <2>1, <2>2
<1> QED BY <1>2, <1>5, <1>6

LEMMA ChanStepOrder ==
  ASSUME ChanInv, NEW c \in Crs, ChanStep(c), NEW e \in Endpoints
  PROVE  NobodyOvertakes(e) /\ ServedInTurn(e)
<1>1. CASE wq' = wq
  BY <1>1, SameOrder
<1>2. ASSUME NEW ch \in Chans, Chmake(c, ch) PROVE wq' = wq
  BY <1>2 DEF Chmake, vars, schedVars
<1>3. ASSUME ChReturn(c) PROVE wq' = wq
  BY <1>3 DEF ChReturn, schedVars
<1>4. ASSUME NEW h \in Halves, Chdone(c, h) PROVE NobodyOvertakes(e) /\ ServedInTurn(e)
  <2> DEFINE q == Waiting(Other(h))
             es == ListsOf(Other(h))
  <2>1. /\ Alive /\ ListsInv /\ TriggerAll(q, es) /\ Other(h) \in Halves
        /\ UNCHANGED <<r, ret, nb1, now, lastPoll, crVars>>
    BY <1>4, HalfFacts DEF Chdone, User, Running, ChanInv
  <2>2. /\ q \in Seq(Crs) /\ NoDup(q) /\ es \in Seq(Endpoints)
        /\ \A x \in Range(q) : \E i \in DOMAIN es : x \in Range(wq[es[i]])
    BY <2>1, WaitingFacts, WaitingFound
  <2> HIDE DEF q, es
  <2> QED BY <2>1, <2>2, HangUpOrder
<1>5. ASSUME NEW h \in Halves, HcloseHalf(c, h) PROVE NobodyOvertakes(e) /\ ServedInTurn(e)
  <2>1. CASE half[Other(h)] # "closed"
    BY <1>1, <1>5, <2>1 DEF HcloseHalf
  <2>2. CASE half[Other(h)] = "closed"
    <3> DEFINE q == TermWaiting(h[1])
               es == ListsOf(<<h[1], 0>>) \o ListsOf(<<h[1], 1>>)
    <3>1. /\ Alive /\ ListsInv /\ TriggerAll(q, es)
          /\ UNCHANGED <<r, ret, nb1, now, lastPoll, crVars>>
      BY <1>5, <2>2 DEF HcloseHalf, User, Running, ChanInv
    <3>2. /\ q \in Seq(Crs) /\ NoDup(q) /\ es \in Seq(Endpoints)
          /\ \A x \in Range(q) : \E i \in DOMAIN es : x \in Range(wq[es[i]])
      BY <3>1, TermWaitingFound
    <3> HIDE DEF q, es
    <3> QED BY <3>1, <3>2, HangUpOrder
  <2> QED BY <2>1, <2>2
<1> QED BY <1>1, <1>2, <1>3, <1>4, <1>5, StepMenus, ChCallOrder

\* Channels are fair (FirstComeFirstServed): no step of any coroutine lets
\* somebody overtake in a list of clauses, and a rendezvous serves the first of
\* the list; that the list holds a coroutine once (ListsInv) makes "first" exact.
THEOREM ChannelsFair == ChanSpec => FirstComeFirstServed
<1>1. ChanInv /\ [ChanNext]_allVars =>
        [\A e \in Endpoints : NobodyOvertakes(e) /\ ServedInTurn(e)]_allVars
  <2> SUFFICES ASSUME ChanInv, ChanNext
               PROVE  \A e \in Endpoints : NobodyOvertakes(e) /\ ServedInTurn(e)
    OBVIOUS
  <2> QED BY CrOrder, ChanStepOrder DEF ChanNext
<1>2. [\A e \in Endpoints : NobodyOvertakes(e) /\ ServedInTurn(e)]_allVars =>
      [\A e \in Endpoints :
         /\ \A i, j \in DOMAIN wq'[e] :
              i < j /\ wq'[e][j] \in Range(wq[e])
                => \E k, l \in DOMAIN wq[e] :
                      k < l /\ wq[e][k] = wq'[e][i] /\ wq[e][l] = wq'[e][j]
         /\ \A i, j \in DOMAIN wq[e] :
              i < j /\ wq[e][i] \in Range(wq'[e])
                => ~(/\ wq[e][j] \in Range(ready') \ Range(wq'[e])
                     /\ res'[wq[e][j]] = Result(ClauseIn(wq[e][j], e) - 1, "0"))
      ]_allVars
  BY DEF NobodyOvertakes, ServedInTurn
<1> QED BY <1>1, <1>2, ChanInvariance, PTL DEF ChanSpec, FirstComeFirstServed
=============================================================================
