--------------------------------- MODULE Chan ---------------------------------
(***************************************************************************)
(* Channels: chan.c, used by the coroutines and bundles of module Cr.      *)
(*                                                                         *)
(* A channel is unbuffered. It has two halves, each with a handle of its   *)
(* own; what is sent through one handle arrives at the other half. A half  *)
(* has two lists of blocked coroutines: those that want to receive from it *)
(* ("in") and those that want to send to it ("out").                       *)
(*                                                                         *)
(* chsend() and chrecv() are choose() with one clause; the three functions *)
(* share their control flow, ChCall below. Failures of malloc and invalid  *)
(* arguments are left out.                                                 *)
(***************************************************************************)
EXTENDS Cr

CONSTANTS
  Chans,       \* pairs of half-channels, by address
  Msgs,        \* messages; a program sends each of them once
  NoMsg,
  Lens,        \* sizes of message buffers
  CallLens,    \* those the program passes to chsend() and chrecv()
  ChanDelays,  \* deadlines, in ticks from now (-1: never)
  Menus        \* the clause lists given to choose()

Halves == Chans \X {0, 1}
Other(h) == <<h[1], 1 - h[2]>>

\* The two lists of a half-channel.
In(h) == <<"in", h>>
Out(h) == <<"out", h>>

\* A clause of a call: struct dill_chclause without its buffer.
Shapes == [op : {"send", "recv"}, h : Halves, len : Lens]

ASSUME ChanAssumption ==
  /\ Endpoints = {"in", "out"} \X Halves
  /\ NoMsg \notin Msgs
  /\ ChanDelays \subseteq Int
  /\ Menus \subseteq Seq(Shapes)
  /\ CallLens \subseteq Lens

VARIABLES
  half,    \* dill_halfchan: "none" if deallocated, "open", or "closed"
  chdone,  \* the half-channels with dill_halfchan::done set
  cls,     \* the clauses of the call a coroutine is blocked in
  buf,     \* the buffer of a coroutine's receive clause that was filled
  fate,    \* history: what became of each message, as its sender sees it
  taken    \* history: how many calls returned successfully with this message

chanVars == <<half, chdone, cls, buf, fate, taken>>
allVars == <<vars, chanVars>>

ChanInit ==
  /\ Init
  /\ half = [h \in Halves |-> "none"]
  /\ chdone = {}
  /\ cls = [c \in Crs |-> <<>>]
  /\ buf = [c \in Crs |-> NoMsg]
  /\ fate = [m \in Msgs |-> "unsent"]
  /\ taken = [m \in Msgs |-> 0]

-----------------------------------------------------------------------------
(***************************************************************************)
(* Clauses.                                                                *)
(***************************************************************************)

\* Sending is always done to the opposite side of the channel.
Target(k) == IF k.op = "send" THEN Other(k.h) ELSE k.h

\* The list where the clause k finds its counterpart, and the one it waits in.
PeerList(k) == IF k.op = "send" THEN In(Target(k)) ELSE Out(Target(k))
OwnList(k) == IF k.op = "send" THEN Out(Target(k)) ELSE In(Target(k))

\* The clause of the blocked coroutine d in the list e. If choose() was given
\* two clauses for one list, the first of them is ahead of the other.
ClauseIn(d, e) ==
  CHOOSE i \in DOMAIN cls[d] :
     /\ OwnList(cls[d][i]) = e
     /\ \A j \in 1..(i - 1) : OwnList(cls[d][j]) # e

\* The list e when the clauses cl of coroutine c have joined it. A coroutine
\* joins a list once, whatever the number of its clauses: the first of them is
\* triggered first and takes the others along.
JoinedFront(e, cl, c) ==
  IF \E i \in DOMAIN cl : OwnList(cl[i]) = e THEN <<c>> \o wq[e] ELSE wq[e]
JoinedFirst(e, cl, c) ==
  IF OwnList(cl[1]) = e THEN Append(wq[e], c) ELSE wq[e]
Joined(e, cl, c) ==
  IF \E i \in DOMAIN cl : OwnList(cl[i]) = e THEN Append(wq[e], c) ELSE wq[e]

\* The clause is decided at once: the handle is bad, the channel is done, or
\* somebody is waiting for it.
DecidedAlone(k) == half[k.h] # "open" \/ Target(k) \in chdone
Decided(k) ==
  half[k.h] # "open" \/ Target(k) \in chdone \/ wq[PeerList(k)] # <<>>

\* The first clause of the list cl that is decided.
FirstDecided(cl) ==
  CHOOSE i \in DOMAIN cl : Decided(cl[i]) /\ \A j \in 1..(i - 1) : ~Decided(cl[j])

\* The messages of the clauses cl, of which only clause i (0: none) was sent.
Settle(cl, i) ==
  [m \in Msgs |->
     IF \E j \in DOMAIN cl : cl[j].op = "send" /\ cl[j].val = m
     THEN IF i # 0 /\ cl[i].op = "send" /\ cl[i].val = m THEN "ok" ELSE "failed"
     ELSE fate[m]]

\* The receive clause i of the clauses cl returned with the message val.
Take(cl, i, val) ==
  IF i # 0 /\ cl[i].op = "recv" THEN [taken EXCEPT ![val] = @ + 1] ELSE taken

-----------------------------------------------------------------------------
(***************************************************************************)
(* chmake(), chsend(), chrecv(), choose().                                 *)
(***************************************************************************)

\* dill_chmake.
Chmake(c, ch) ==
  /\ User(c) /\ CanBlock(c)
  /\ half[<<ch, 0>>] = "none" /\ half[<<ch, 1>>] = "none"
  /\ half' = [half EXCEPT ![<<ch, 0>>] = "open", ![<<ch, 1>>] = "open"]
  /\ chdone' = chdone \ {<<ch, 0>>, <<ch, 1>>}
  /\ UNCHANGED <<vars, cls, buf, fate, taken>>

\* What clause p of the blocked coroutine is told when clause k meets it.
PeerErrorNone(k, p) == "0"
PeerError(k, p) == IF k.len = p.len THEN "0" ELSE "EMSGSIZE"

\* The clause k of the running coroutine meets clause p of the coroutine d,
\* the first in its list: the message is copied and d is woken up, or both
\* fail with EMSGSIZE.
Meet(c, cl, i) ==
  LET k == cl[i]
      d == Head(wq[PeerList(k)])
      j == ClauseIn(d, PeerList(k))
      p == cls[d][j]
  IN /\ DoCancelOne(d, j - 1, PeerError(k, p))
     /\ IF k.len = p.len
        THEN /\ buf' = IF k.op = "send" THEN [buf EXCEPT ![d] = k.val] ELSE buf
             /\ fate' = Settle(cl, i)
             /\ taken' = Take(cl, i, p.val)
        ELSE /\ fate' = Settle(cl, 0)
             /\ UNCHANGED <<buf, taken>>

\* A clause is decided: the call returns at once, with an error if the handle
\* is bad (EBADF) or the channel done (EPIPE).
ChCallNow(c, cl) ==
  /\ \E i \in DOMAIN cl : Decided(cl[i])
  /\ LET i == FirstDecided(cl)
     IN IF half[cl[i].h] # "open" \/ Target(cl[i]) \in chdone
        THEN /\ fate' = Settle(cl, 0)
             /\ UNCHANGED <<ready, res, timers, tm, wq, abort, buf, taken>>
        ELSE Meet(c, cl, i)
  /\ UNCHANGED <<r, ret, nb1, now, lastPoll, crVars, half, chdone, cls>>

\* No clause is decided: the call fails if its deadline is 0, otherwise a
\* clause joins each list, a timer is set and the coroutine is suspended.
ChCallLater(c, cl, delay) ==
  /\ \A i \in DOMAIN cl : ~Decided(cl[i])
  /\ IF delay = 0
     THEN /\ fate' = Settle(cl, 0)
          /\ UNCHANGED <<vars, cls>>
     ELSE /\ Deadline(delay) <= LastDeadline
          /\ wq' = [e \in Endpoints |-> Joined(e, cl, c)]
          /\ SetTimer(c, Len(cl), Deadline(delay))
          /\ Suspend
          /\ call' = [call EXCEPT ![c] = InExt]
          /\ cls' = [cls EXCEPT ![c] = cl]
          /\ fate' = [m \in Msgs |->
                        IF \E i \in DOMAIN cl : cl[i].op = "send" /\ cl[i].val = m
                        THEN "pending" ELSE fate[m]]
          /\ UNCHANGED <<ready, res, nb1, now, lastPoll, abort,
                         live, done, closer, owner, crs, waiter>>
  /\ UNCHANGED <<half, chdone, buf, taken>>

\* The clauses of a call with the messages they offer: new ones, each once.
Offers(menu) ==
  LET offer(val) == [i \in DOMAIN menu |->
        [op |-> menu[i].op, h |-> menu[i].h, len |-> menu[i].len, val |-> val[i]]]
  IN {offer(val) : val \in
       {v \in [DOMAIN menu -> Msgs \cup {NoMsg}] :
          /\ \A i \in DOMAIN menu :
                IF menu[i].op = "send" THEN v[i] \in Msgs /\ fate[v[i]] = "unsent"
                ELSE v[i] = NoMsg
          /\ \A i, j \in DOMAIN menu : v[i] = v[j] => i = j \/ menu[i].op = "recv"}}

ChCall(c, menu, delay) ==
  /\ User(c) /\ CanBlock(c)
  /\ \E cl \in Offers(menu) : ChCallNow(c, cl) \/ ChCallLater(c, cl, delay)

Chsend(c, h, len, delay) ==
  ChCall(c, <<[op |-> "send", h |-> h, len |-> len]>>, delay)

Chrecv(c, h, len, delay) ==
  ChCall(c, <<[op |-> "recv", h |-> h, len |-> len]>>, delay)

Choose(c, menu, delay) == ChCall(c, menu, delay)

\* The clause that dill_wait reports as successful, 0 if there is none.
ServedAnyErrno(c) == IF ret.id \in 0..(Len(cls[c]) - 1) THEN ret.id + 1 ELSE 0
Served(c) ==
  IF ret.id \in 0..(Len(cls[c]) - 1) /\ ret.err = "0" THEN ret.id + 1 ELSE 0

\* chsend(), chrecv() or choose() returns after its dill_wait: canceled, timed
\* out, failed, or successful with the clause that was triggered.
ChReturn(c) ==
  /\ Running(c) /\ call[c] = InExt
  /\ fate' = Settle(cls[c], Served(c))
  /\ taken' = Take(cls[c], Served(c), buf[c])
  /\ buf' = [buf EXCEPT ![c] = NoMsg]
  /\ cls' = [cls EXCEPT ![c] = <<>>]
  /\ call' = [call EXCEPT ![c] = Idle]
  /\ UNCHANGED <<schedVars, live, done, closer, owner, crs, waiter, half, chdone>>

-----------------------------------------------------------------------------
(***************************************************************************)
(* chdone() and hclose().                                                  *)
(***************************************************************************)

\* Who waits in list a, then who waits in list b, everybody once: whoever is
\* woken up leaves all lists at once.
Then(a, b) == a \o Without(b, Range(a))

\* All who wait for the half-channel h, in the order the loops find them.
Waiting(h) == Then(wq[In(h)], wq[Out(h)])

\* dill_trigger with EPIPE for the coroutines of q in turn, found in the lists
\* es.
TriggerAll(q, es) ==
  LET first(x) == CHOOSE i \in DOMAIN es :
                     /\ x \in Range(wq[es[i]])
                     /\ \A j \in 1..(i - 1) : x \notin Range(wq[es[j]])
  IN DoCancel(q, [x \in Crs |-> IF x \in Range(q)
                                THEN Result(ClauseIn(x, es[first(x)]) - 1, "EPIPE")
                                ELSE NoResult])

ListsOf(h) == <<In(h), Out(h)>>

\* dill_chdone. It is not a blocking call. A second chdone() fails with EPIPE
\* and changes nothing.
Chdone(c, h) ==
  /\ User(c)
  /\ half[h] = "open" /\ Other(h) \notin chdone
  /\ chdone' = chdone \cup {Other(h)}
  /\ TriggerAll(Waiting(Other(h)), ListsOf(Other(h)))
  /\ UNCHANGED <<r, ret, nb1, now, lastPoll, crVars, half, cls, buf, fate, taken>>

\* All whom dill_halfchan_close wakes up before it frees the channel.
TermWaitingOneHalf(ch) == Waiting(<<ch, 0>>)
TermWaiting(ch) == Then(Waiting(<<ch, 0>>), Waiting(<<ch, 1>>))

\* dill_hclose of a half-channel. Nothing happens until the other half is
\* closed too; then everybody who still waits is woken up.
HcloseHalf(c, h) ==
  /\ User(c)
  /\ half[h] = "open"
  /\ IF half[Other(h)] # "closed"
     THEN /\ half' = [half EXCEPT ![h] = "closed"]
          /\ UNCHANGED <<ready, res, timers, tm, wq, abort>>
     ELSE /\ half' = [half EXCEPT ![h] = "none", ![Other(h)] = "none"]
          /\ TriggerAll(TermWaiting(h[1]), ListsOf(<<h[1], 0>>) \o ListsOf(<<h[1], 1>>))
  /\ UNCHANGED <<r, ret, nb1, now, lastPoll, crVars, chdone, cls, buf, fate, taken>>

-----------------------------------------------------------------------------
ChanStep(c) ==
  \/ \E ch \in Chans : Chmake(c, ch)
  \/ \E h \in Halves, len \in CallLens, delay \in ChanDelays : Chsend(c, h, len, delay)
  \/ \E h \in Halves, len \in CallLens, delay \in ChanDelays : Chrecv(c, h, len, delay)
  \/ \E menu \in Menus, delay \in ChanDelays : Choose(c, menu, delay)
  \/ ChReturn(c)
  \/ \E h \in Halves : Chdone(c, h)
  \/ \E h \in Halves : HcloseHalf(c, h)

ChanNext == (Next /\ UNCHANGED chanVars) \/ \E c \in Crs : ChanStep(c)

ChanSpec == ChanInit /\ [][ChanNext]_allVars

-----------------------------------------------------------------------------
(***************************************************************************)
(* Properties.                                                             *)
(***************************************************************************)
Clauses == [op : {"send", "recv"}, h : Halves, len : Lens, val : Msgs \cup {NoMsg}]

\* Every variable has its type.
ChanTypeOK ==
  /\ TypeOK
  /\ half \in [Halves -> {"none", "open", "closed"}]
  /\ chdone \subseteq Halves
  /\ cls \in [Crs -> Seq(Clauses)]
  /\ buf \in [Crs -> Msgs \cup {NoMsg}]
  /\ fate \in [Msgs -> {"unsent", "pending", "ok", "failed"}]
  /\ taken \in [Msgs -> Nat]

\* The clauses live on the stacks of blocked coroutines. A list holds no clause
\* of a coroutine that runs or is queued to run (triggering it would fail the
\* assertion of dill_docancel), nor of one that is dead or has left the call.
ClausesSound ==
  Alive => \A e \in Endpoints :
     /\ NoDup(wq[e])
     /\ \A c \in Range(wq[e]) :
           /\ Suspended(c) /\ call[c] = InExt /\ c \in live \ done
           /\ \E i \in DOMAIN cls[c] : OwnList(cls[c][i]) = e

\* A coroutine blocked in chsend(), chrecv() or choose() can still be woken up
\* through each of its clauses: none of them was lost.
ClausesComplete ==
  Alive => \A c \in Crs :
     call[c] = InExt /\ Suspended(c) =>
        \A i \in DOMAIN cls[c] : c \in Range(wq[OwnList(cls[c][i])])

\* No rendezvous is missed: never does one coroutine wait to send to a
\* half-channel while another one waits to receive from it.
NoMissedRendezvous ==
  Alive => \A h \in Halves :
     \A s \in Range(wq[Out(h)]), t \in Range(wq[In(h)]) : s = t

\* Nobody waits on a half-channel that is done, and no clause is linked to one
\* that was deallocated.
NobodyLeftBehind ==
  Alive => \A h \in Halves :
     h \in chdone \/ half[h] = "none" => wq[In(h)] = <<>> /\ wq[Out(h)] = <<>>

\* The lists of clauses are exact, however deadlines, chdone(), hclose() and
\* cancelation interfere with calls that wait in several of them: they hold the
\* clauses of blocked coroutines, all of them, and nothing else.
ClausesExact == ClausesSound /\ ClausesComplete /\ NobodyLeftBehind

\* c is about to return successfully from the clause i of its blocked call.
Woken(c, i) ==
  /\ call[c] = InExt /\ i \in DOMAIN cls[c]
  /\ \/ c \in Range(ready) /\ res[c] = Result(i - 1, "0")
     \/ r = c /\ ret = Result(i - 1, "0")

\* How often the message m has been handed to a receiver.
Copies(m) ==
  taken[m] + Cardinality({c \in Crs : buf[c] = m /\ \E i \in DOMAIN cls[c] :
                                         cls[c][i].op = "recv" /\ Woken(c, i)})

\* A message is received exactly once if its sender is told that it was sent,
\* and never if the sender is told that it was not, however deadlines, chdone(),
\* hclose() and cancelation race with the exchange.
ExactlyOnce ==
  Alive => \A m \in Msgs :
     Copies(m) =
       CASE fate[m] = "ok" -> 1
         [] fate[m] = "pending" ->
              IF \E c \in Crs : \E i \in DOMAIN cls[c] :
                    cls[c][i].val = m /\ Woken(c, i)
              THEN 1 ELSE 0
         [] OTHER -> 0

\* Channels are fair: nobody overtakes a coroutine in the list it waits in, and
\* of two coroutines in the same list the one that came first is served first.
FirstComeFirstServed ==
  [][\A e \in Endpoints :
       /\ \A i, j \in DOMAIN wq'[e] :
            i < j /\ wq'[e][j] \in Range(wq[e])
              => \E k, l \in DOMAIN wq[e] :
                    k < l /\ wq[e][k] = wq'[e][i] /\ wq[e][l] = wq'[e][j]
       /\ \A i, j \in DOMAIN wq[e] :
            i < j /\ wq[e][i] \in Range(wq'[e])
              => ~(/\ wq[e][j] \in Range(ready') \ Range(wq'[e])
                   /\ res'[wq[e][j]] = Result(ClauseIn(wq[e][j], e) - 1, "0"))
    ]_allVars
=============================================================================
