--------------------------- MODULE PollsetProofs ---------------------------
(***************************************************************************)
(* Proofs about the modules Epoll and Poll: waiting for any number of file *)
(* descriptors by epoll or by poll, among any number of coroutines and     *)
(* bundles.                                                                *)
(***************************************************************************)
EXTENDS Epoll, Poll, CrProofs

-----------------------------------------------------------------------------
(***************************************************************************)
(* The invariant.                                                          *)
(***************************************************************************)

\* A list holds at most one coroutine, which is blocked in fdin() or fdout() of
\* a descriptor that is cached, hence open, and is on no other list.
FdLists ==
  Alive =>
  /\ opened \subseteq Fds /\ cached \subseteq opened
  /\ \A x \in Crs : call[x] = InExt => x \in live \ done
  /\ \A e \in Endpoints : \A x \in Range(wq[e]) :
        wq[e] = <<x>> /\ call[x] = InExt /\ Suspended(x) /\ e[2] \in cached
  /\ \A e, f \in Endpoints : e # f => Range(wq[e]) \cap Range(wq[f]) = {}

EpollTypes ==
  Alive => /\ currevs \in [Fds -> SUBSET Dirs] /\ kset \in [Fds -> SUBSET Dirs]
           /\ changelist \subseteq Fds

EpollInv ==
  /\ IInv /\ FdLists /\ FdNotForgotten
  /\ EpollTypes /\ KernelInSync /\ CopyExact /\ PollNeverLies

-----------------------------------------------------------------------------
(***************************************************************************)
(* Lemmas.                                                                 *)
(***************************************************************************)

\* The orders in which epoll_wait may report a finite set.
LEMMA OrderFacts ==
  ASSUME NEW S, IsFiniteSet(S), NEW order \in SetToSeqs(S)
  PROVE  /\ order \in Seq(S) /\ DOMAIN order = 1..Len(order) /\ Len(order) \in Nat
         /\ \A i, j \in DOMAIN order : order[i] = order[j] => i = j
         /\ S # {} => order # <<>>
<1>1. Cardinality(S) \in Nat
  BY FS_CardinalityType
<1>2. /\ order \in [1..Cardinality(S) -> S]
      /\ \A i, j \in 1..Cardinality(S) : i # j => order[i] # order[j]
  BY DEF SetToSeqs
<1>3. S # {} => Cardinality(S) # 0
  BY FS_EmptySet
<1>4. order \in Seq(S) /\ Len(order) = Cardinality(S)
  BY <1>1, <1>2
<1> QED BY <1>1, <1>2, <1>3, <1>4

\* What the lists mean to the other modules.
LEMMA FdExtSound ==
  ASSUME IInv, FdLists PROVE ExtSound
BY DEF FdLists, ExtSound

\* Waits(fd) in terms of the lists, and the shape of an endpoint.
LEMMA EndpointFacts ==
  /\ \A d \in Dirs, fd \in Fds : <<d, fd>> \in Endpoints
  /\ \A e \in Endpoints : e[1] \in Dirs /\ e[2] \in Fds /\ e = <<e[1], e[2]>>
  /\ IsFiniteSet(Endpoints)
<1>1. Endpoints = Dirs \X Fds /\ IsFiniteSet(Fds)
  BY PollsetAssumption
<1>2. IsFiniteSet(Dirs)
  <2>1. Dirs = {"in"} \cup {"out"}
    BY DEF Dirs
  <2>2. IsFiniteSet({"in"}) /\ IsFiniteSet({"out"})
    BY FS_Singleton
  <2> QED BY <2>1, <2>2, FS_Union
<1>3. IsFiniteSet(Dirs \X Fds)
  BY <1>1, <1>2, FS_Product
<1> QED BY <1>1, <1>3

\* A list that is not empty holds exactly one coroutine.
LEMMA ListFacts ==
  ASSUME IInv, FdLists, Alive, NEW e \in Endpoints
  PROVE  /\ wq[e] \in Seq(Crs)
         /\ wq[e] # <<>> => /\ Head(wq[e]) \in Crs /\ wq[e] = <<Head(wq[e])>>
                            /\ Range(wq[e]) = {Head(wq[e])}
<1>1. wq[e] \in Seq(Crs)
  BY DEF IInv, TypeOK
<1>2. ASSUME wq[e] # <<>>
      PROVE  /\ Head(wq[e]) \in Crs /\ wq[e] = <<Head(wq[e])>>
             /\ Range(wq[e]) = {Head(wq[e])}
  <2>1. Head(wq[e]) \in Crs /\ Head(wq[e]) \in Range(wq[e])
    BY <1>1, <1>2, RangeTail
  <2>2. wq[e] = <<Head(wq[e])>>
    BY <2>1 DEF FdLists
  <2>3. Range(<<Head(wq[e])>>) = {Head(wq[e])}
    BY <2>1, RangeSmall
  <2> QED BY <2>1, <2>2, <2>3
<1> QED BY <1>1, <1>2

\* What EpollSound asks of the lists.
LEMMA InvFdinfo == IInv /\ FdLists => FdinfoSound
<1> SUFFICES ASSUME IInv, FdLists, Alive, NEW fd \in Fds, NEW d \in Waits(fd)
             PROVE  LET c == Head(wq[<<d, fd>>]) IN
                    /\ wq[<<d, fd>>] = <<c>> /\ Suspended(c) /\ call[c] = InExt
                    /\ c \in live \ done
                    /\ fd \in cached /\ fd \in opened
                    /\ \A e \in Endpoints \ {<<d, fd>>} : c \notin Range(wq[e])
  BY DEF FdinfoSound
<1> DEFINE f == <<d, fd>>
           c == Head(wq[f])
<1>1. f \in Endpoints /\ wq[f] # <<>> /\ f[2] = fd
  BY EndpointFacts DEF Waits
<1> HIDE DEF f
<1>2. c \in Crs /\ wq[f] = <<c>> /\ Range(wq[f]) = {c}
  BY <1>1, ListFacts
<1>3. c \in Range(wq[f])
  BY <1>2
<1> HIDE DEF c
<1>4. call[c] = InExt /\ Suspended(c) /\ fd \in cached /\ fd \in opened
  BY <1>1, <1>3 DEF FdLists
<1>5. c \in live \ done
  BY <1>2, <1>4 DEF FdLists
<1>6. \A e \in Endpoints \ {f} : c \notin Range(wq[e])
  BY <1>1, <1>3 DEF FdLists
<1> QED BY <1>2, <1>4, <1>5, <1>6 DEF c, f

-----------------------------------------------------------------------------
(***************************************************************************)
(* Steps that only take coroutines off the lists.                          *)
(***************************************************************************)

\* Whoever leaves a list leaves all of them and is woken up.
Shrinking ==
  /\ \A e \in Endpoints : /\ Range(wq'[e]) \subseteq Range(wq[e])
                          /\ NoDup(wq[e]) => NoDup(wq'[e])
                          /\ \A x \in Range(wq'[e]) : Suspended(x)'
  /\ \A x \in Crs : call'[x] = InExt <=> call[x] = InExt
  /\ \A x \in Crs : call[x] = InExt =>
        /\ x \in live' \ done'
        /\ Suspended(x)' =>
             Suspended(x) /\ \A e \in Endpoints : x \in Range(wq[e]) => x \in Range(wq'[e])

LEMMA CrKeepsShrinks == CrKeeps => Shrinking
BY DEF CrKeeps, Shrinking

\* The list is left as it is or empty.
LEMMA ShrinkLists ==
  ASSUME IInv, IInv', FdLists, Alive, Shrinking, NEW e \in Endpoints
  PROVE  wq'[e] = wq[e] \/ wq'[e] = <<>>
<1>1. wq[e] \in Seq(Crs) /\ wq'[e] \in Seq(Crs)
  BY DEF IInv, TypeOK
<1>2. CASE wq[e] = <<>>
  <2>1. Range(wq'[e]) = {}
    BY <1>2, RangeSmall DEF Shrinking
  <2> QED BY <1>1, <2>1, RangeTail
<1>3. CASE wq[e] # <<>>
  <2>1. PICK c \in Crs : wq[e] = <<c>> /\ Range(wq[e]) = {c}
    BY <1>3, ListFacts
  <2>2. NoDup(wq[e])
    BY <2>1, RangeSmall
  <2>3. Range(wq'[e]) \subseteq {c} /\ NoDup(wq'[e])
    BY <2>1, <2>2 DEF Shrinking
  <2>4. CASE wq'[e] # <<>>
    <3>1. Range(wq'[e]) = {c}
      BY <1>1, <2>3, <2>4, RangeTail
    <3> QED BY <1>1, <2>1, <2>3, <3>1, OneItem
  <2> QED BY <2>4
<1> QED BY <1>2, <1>3

\* Such a step keeps what is promised of the lists.
LEMMA ShrinkFdLists ==
  ASSUME IInv, IInv', FdLists, FdNotForgotten, Alive, Alive', Shrinking, UNCHANGED fdVars
  PROVE  FdLists' /\ FdNotForgotten'
<1>1. opened' = opened /\ cached' = cached
  BY DEF fdVars
<1>2. ASSUME NEW e \in Endpoints, NEW x \in Range(wq'[e])
      PROVE  wq'[e] = <<x>> /\ call'[x] = InExt /\ Suspended(x)' /\ e[2] \in cached'
  <2>1. x \in Range(wq[e]) /\ Suspended(x)'
    BY <1>2 DEF Shrinking
  <2>2. wq[e] = <<x>> /\ call[x] = InExt /\ e[2] \in cached
    BY <2>1 DEF FdLists
  <2>3. x \in Crs
    BY <2>1, FdExtSound, Blocked
  <2>4. wq'[e] # <<>>
    BY <1>2, RangeSmall
  <2>5. wq'[e] = wq[e]
    BY <2>4, ShrinkLists
  <2> QED BY <1>1, <2>1, <2>2, <2>3, <2>5 DEF Shrinking
<1>3. ASSUME NEW e \in Endpoints, NEW f \in Endpoints, e # f
      PROVE  Range(wq'[e]) \cap Range(wq'[f]) = {}
  BY <1>3 DEF FdLists, Shrinking
<1>4. \A x \in Crs : call'[x] = InExt => x \in live' \ done'
  BY DEF Shrinking
<1>5. FdLists'
  BY <1>1, <1>2, <1>3, <1>4 DEF FdLists
<1>6. ASSUME NEW c \in Crs, call'[c] = InExt, Suspended(c)'
      PROVE  \E e \in Endpoints : c \in Range(wq'[e])
  <2>1. call[c] = InExt /\ Suspended(c)
    BY <1>6 DEF Shrinking
  <2>2. PICK e \in Endpoints : c \in Range(wq[e])
    BY <2>1 DEF FdNotForgotten
  <2> QED BY <1>6, <2>1, <2>2 DEF Shrinking
<1>7. FdNotForgotten'
  BY <1>6 DEF FdNotForgotten
<1> QED BY <1>5, <1>7

\* What is waited for changes for the dropped descriptors only, which are cached.
LEMMA DroppedFacts ==
  ASSUME IInv, IInv', FdLists, Alive, Shrinking, NEW fd \in Fds
  PROVE  /\ fd \notin Dropped => Waits(fd)' = Waits(fd)
         /\ fd \notin cached => Waits(fd) = {} /\ fd \notin Dropped
<1>1. ASSUME NEW d \in Dirs
      PROVE  /\ fd \notin Dropped => (wq'[<<d, fd>>] # <<>> <=> wq[<<d, fd>>] # <<>>)
             /\ fd \notin cached => wq[<<d, fd>>] = <<>>
  <2> DEFINE e == <<d, fd>>
  <2>1. e \in Endpoints /\ e[2] = fd
    BY EndpointFacts
  <2>2. fd \notin Dropped => wq[e] = <<>> \/ wq'[e] # <<>>
    BY DEF Dropped
  <2> HIDE DEF e
  <2>3. wq'[e] = wq[e] \/ wq'[e] = <<>>
    BY <2>1, ShrinkLists
  <2>4. fd \notin cached => wq[e] = <<>>
    <3>1. wq[e] # <<>> => Range(wq[e]) = {Head(wq[e])}
      BY <2>1, ListFacts
    <3> QED BY <2>1, <3>1 DEF FdLists
  <2>5. /\ fd \notin Dropped => (wq'[e] # <<>> <=> wq[e] # <<>>)
        /\ fd \notin cached => wq[e] = <<>>
    BY <2>2, <2>3, <2>4
  <2> QED BY <2>5 DEF e
<1>2. fd \notin Dropped => Waits(fd)' = Waits(fd)
  BY <1>1 DEF Waits
<1>3. fd \notin cached => Waits(fd) = {} /\ fd \notin Dropped
  BY <1>1 DEF Waits, Dropped
<1> QED BY <1>2, <1>3

-----------------------------------------------------------------------------
(***************************************************************************)
(* Coroutines, bundles and the clock.                                      *)
(***************************************************************************)

\* None of these steps ends the process in the poll.
LEMMA ElsewhereAborts ==
  ASSUME Elsewhere, PollNeverLies PROVE PollNeverLies'
<1>1. CASE RunReady \/ Tick \/ Crashed
  BY <1>1 DEF RunReady, Tick, Crashed, schedVars, PollNeverLies
<1>2. ASSUME NEW c \in Crs, UserStep(c) PROVE PollNeverLies'
  <2>1. ASSUME NEW q, NEW f, DoCancel(q, f) PROVE PollNeverLies'
    BY <2>1 DEF DoCancel, PollNeverLies
  <2>2. ASSUME NEW b, NEW q, NEW F, CloseRest(c, b, q, F) PROVE PollNeverLies'
    <3>1. abort' = abort \/ DoCancelOne(Head(q), -1, "ECANCELED")
      BY <2>2 DEF CloseRest
    <3> QED BY <2>1, <3>1 DEF DoCancelOne, PollNeverLies
  <2>3. CASE \/ \E b \in Bundles : Bundle(c, b)
             \/ \E b \in Bundles, d \in Crs : Go(c, b, d) \/ BundleGo(c, b, d)
    BY <2>3 DEF Bundle, Go, BundleGo, Launch, schedVars, PollNeverLies
  <2>4. CASE \/ Yield(c)
             \/ \E delay \in SleepDelays : Msleep(c, delay)
             \/ \E b \in Bundles, delay \in WaitDelays : BundleWait(c, b, delay)
             \/ BundleWaitReturn(c)
    BY <2>4 DEF Yield, Msleep, BundleWait, BundleWaitReturn, PollNeverLies
  <2>5. CASE \E b \in Bundles : Hclose(c, b)
    BY <2>2, <2>5 DEF Hclose
  <2>6. CASE HcloseResume(c)
    BY <2>2, <2>6 DEF HcloseResume, PollNeverLies
  <2>7. CASE Return(c)
    BY <2>1, <2>7 DEF Return
  <2> QED BY <1>2, <2>3, <2>4, <2>5, <2>6, <2>7 DEF UserStep
<1> QED BY <1>1, <1>2 DEF Elsewhere

\* They are steps of module Cr.
LEMMA ElsewhereShrinks ==
  ASSUME IInv, FdLists, Elsewhere
  PROVE  IInv' /\ (Alive /\ Alive' => Shrinking)
<1>1. Kernel \/ \E c \in Crs : UserStep(c)
  BY DEF Elsewhere, Kernel
<1>2. IInv'
  BY <1>1, NextIInv DEF Next
<1>3. Alive /\ Alive' => Shrinking
  BY <1>1, FdExtSound, KernelKeeps, UserStepKeeps, CrKeepsShrinks
<1> QED BY <1>2, <1>3

\* When an assertion has failed nothing else is promised.
LEMMA DeadEpollInv ==
  ASSUME IInv', PollNeverLies', ~Alive' PROVE EpollInv'
BY DEF EpollInv, FdLists, FdNotForgotten, EpollTypes, KernelInSync, CopyExact

\* Who stopped waiting is noted in the changelist.
LEMMA ElsewhereEpoll ==
  ASSUME EpollInv, Elsewhere, changelist' = Changed, UNCHANGED <<fdVars, currevs, kset>>
  PROVE  EpollInv'
<1>1. IInv' /\ PollNeverLies' /\ (Alive /\ Alive' => Shrinking)
  BY ElsewhereShrinks, ElsewhereAborts DEF EpollInv
<1>2. CASE ~Alive'
  BY <1>1, <1>2, DeadEpollInv
<1>3. CASE Alive'
  <2>1. Alive
    BY <1>3 DEF Elsewhere, RunReady, Tick, Crashed, schedVars, UserStep, Bundle, Go,
       BundleGo, Yield, Msleep, BundleWait, BundleWaitReturn, Hclose, HcloseResume,
       Return, User, Running, Alive
  <2>2. FdLists' /\ FdNotForgotten'
    BY <1>1, <1>3, <2>1, ShrinkFdLists DEF EpollInv
  <2>4. /\ \A fd \in Fds : fd \notin Dropped => Waits(fd)' = Waits(fd)
        /\ \A fd \in Fds : fd \notin cached => fd \notin Dropped
    BY <1>1, <1>3, <2>1, DroppedFacts DEF EpollInv
  <2>6. changelist' = changelist \cup Dropped /\ cached' = cached /\ currevs' = currevs
          /\ kset' = kset /\ Dropped \subseteq Fds
    BY DEF Changed, fdVars, Dropped
  <2>7. EpollTypes'
    BY <2>1, <2>6 DEF EpollInv, EpollTypes
  <2>8. KernelInSync'
    BY <2>1, <2>4, <2>6 DEF EpollInv, KernelInSync
  <2>9. CopyExact'
    BY <2>1, <2>4, <2>6 DEF EpollInv, CopyExact
  <2> QED BY <1>1, <2>2, <2>7, <2>8, <2>9 DEF EpollInv
<1> QED BY <1>2, <1>3

-----------------------------------------------------------------------------
(***************************************************************************)
(* fdin(), fdout(), fdclean(), and descriptors opened and closed.          *)
(***************************************************************************)

\* A step that changes nothing of the coroutines.
LEMMA VarsUnchanged ==
  ASSUME IInv, UNCHANGED vars
  PROVE  /\ IInv' /\ (Alive' <=> Alive) /\ (PollNeverLies => PollNeverLies')
         /\ UNCHANGED <<wq, call, live, done, r, ready>>
         /\ \A fd \in Fds : Waits(fd)' = Waits(fd)
         /\ \A x : Suspended(x)' <=> Suspended(x)
BY NextIInv DEF vars, schedVars, crVars, Alive, PollNeverLies, Waits, Suspended

\* Descriptors are opened, cleaned and closed.
LEMMA DescriptorLists ==
  ASSUME IInv, FdLists, FdNotForgotten, NEW c \in Crs, NEW fd \in Fds,
         OpenFd(c, fd) \/ Fdclean(c, fd) \/ CloseFd(c, fd)
  PROVE  IInv' /\ FdLists' /\ FdNotForgotten' /\ Alive /\ UNCHANGED vars
<1>1. UNCHANGED vars /\ Alive
  BY DEF OpenFd, Fdclean, CloseFd, User, Running
<1>2. /\ IInv' /\ UNCHANGED <<wq, call, live, done, r, ready>>
      /\ \A x : Suspended(x)' <=> Suspended(x)
  BY <1>1, VarsUnchanged
<1>3. FdNotForgotten'
  BY <1>1, <1>2 DEF FdNotForgotten
<1>4. \A e \in Endpoints : wq[e] # <<>> => e[2] \in cached
  <2>1. \A e \in Endpoints : wq[e] # <<>> => Head(wq[e]) \in Range(wq[e])
    BY <1>1, ListFacts
  <2> QED BY <1>1, <2>1 DEF FdLists
<1>5. ASSUME NEW e \in Endpoints, wq[e] # <<>> PROVE e[2] \in cached'
  <2>1. e[1] \in Dirs /\ e = <<e[1], e[2]>>
    BY EndpointFacts
  <2>2. e[2] = fd => Waits(fd) # {}
    BY <1>5, <2>1 DEF Waits
  <2> QED BY <1>4, <1>5, <2>2 DEF OpenFd, Fdclean, CloseFd
<1>6. opened' \subseteq Fds /\ cached' \subseteq opened'
  BY <1>1 DEF FdLists, OpenFd, Fdclean, CloseFd
<1>7. \A e \in Endpoints : wq[e] = <<>> => Range(wq[e]) = {}
  BY RangeSmall
<1>8. FdLists'
  BY <1>1, <1>2, <1>5, <1>6, <1>7 DEF FdLists
<1> QED BY <1>1, <1>2, <1>3, <1>8

LEMMA DescriptorEpoll ==
  ASSUME EpollInv, NEW c \in Crs, NEW fd \in Fds,
         \/ OpenFd(c, fd) /\ UNCHANGED epollVars
         \/ EpollClean(c, fd)
         \/ EpollClose(c, fd)
  PROVE  EpollInv'
<1>1. IInv' /\ FdLists' /\ FdNotForgotten' /\ Alive /\ UNCHANGED vars
  BY DescriptorLists DEF EpollInv, EpollClean, EpollClose
<1>2. PollNeverLies' /\ \A g \in Fds : Waits(g)' = Waits(g)
  BY <1>1, VarsUnchanged DEF EpollInv
<1>3. CASE OpenFd(c, fd) /\ UNCHANGED epollVars
  <2>1. UNCHANGED <<currevs, changelist, kset, cached>>
    BY <1>3 DEF OpenFd, epollVars
  <2>2. EpollTypes' /\ KernelInSync' /\ CopyExact'
    BY <1>1, <1>2, <2>1 DEF EpollInv, EpollTypes, KernelInSync, CopyExact
  <2> QED BY <1>1, <1>2, <2>2 DEF EpollInv
<1>4. CASE EpollClose(c, fd)
  <2>1. /\ UNCHANGED <<currevs, changelist, cached>>
        /\ fd \notin cached /\ kset' = [kset EXCEPT ![fd] = {}]
    BY <1>4 DEF EpollClose, CloseFd
  <2>2. kset[fd] = {} /\ kset \in [Fds -> SUBSET Dirs]
    BY <1>1, <2>1 DEF EpollInv, CopyExact, EpollTypes
  <2>3. kset' = kset
    BY <2>1, <2>2
  <2>4. EpollTypes' /\ KernelInSync' /\ CopyExact'
    BY <1>1, <1>2, <2>1, <2>3 DEF EpollInv, EpollTypes, KernelInSync, CopyExact
  <2> QED BY <1>1, <1>2, <2>4 DEF EpollInv
<1>5. CASE EpollClean(c, fd)
  <2>1. /\ cached' = cached \ {fd} /\ Waits(fd) = {}
        /\ currevs' = [currevs EXCEPT ![fd] = {}]
        /\ kset' = IF currevs[fd] # {} THEN [kset EXCEPT ![fd] = {}] ELSE kset
        /\ changelist' = changelist \ {fd}
    BY <1>5 DEF EpollClean, Fdclean, CleanedList
  <2>2. /\ kset \in [Fds -> SUBSET Dirs] /\ currevs \in [Fds -> SUBSET Dirs]
        /\ changelist \subseteq Fds /\ currevs[fd] = kset[fd]
    BY <1>1 DEF EpollInv, CopyExact, EpollTypes
  <2>3. kset' = [kset EXCEPT ![fd] = {}]
    BY <2>1, <2>2
  <2>4. /\ \A g \in Fds \ {fd} : kset'[g] = kset[g] /\ currevs'[g] = currevs[g]
        /\ kset'[fd] = {} /\ currevs'[fd] = {}
    BY <2>1, <2>2, <2>3
  <2>5. EpollTypes'
    BY <2>1, <2>2, <2>3 DEF EpollTypes
  <2>6. KernelInSync'
    BY <1>1, <1>2, <2>1, <2>4 DEF EpollInv, KernelInSync
  <2>7. CopyExact'
    BY <1>1, <1>2, <2>1, <2>4 DEF EpollInv, CopyExact
  <2> QED BY <1>1, <1>2, <2>5, <2>6, <2>7 DEF EpollInv
<1> QED BY <1>3, <1>4, <1>5

\* fdin() and fdout() return: the caller is not on a list any more.
LEMMA FdReturnIInv ==
  ASSUME IInv, NEW c \in Crs, FdReturn(c) PROVE IInv'
<1>1. /\ Alive /\ r = c /\ call[c] = InExt /\ call' = [call EXCEPT ![c] = Idle]
      /\ UNCHANGED <<r, ret, ready, res, timers, tm, wq, nb1, now, lastPoll, abort,
                     live, done, closer, owner, crs, waiter>>
  BY DEF FdReturn, Running, schedVars
<1>2. TypeOK'
  BY <1>1, FrameTypes DEF IInv, TypeOK
<1>3. /\ \A x \in Crs \ {c} : call'[x] = call[x]
      /\ \A x \in Crs : Suspended(x)' <=> Suspended(x)
      /\ call'[c].op = "none" /\ call[c].op = "ext"
  BY <1>1, FrameTypes DEF Suspended, IInv, TypeOK
<1>4. ReadyQueueSound' /\ NoOrphans'
  BY <1>1 DEF IInv, ReadyQueueSound, NoOrphans, Alive, Open
<1>5. CloseCoherent'
  BY <1>1, <1>3, SchedAssumption DEF IInv, CloseCoherent, Alive, TypeOK, Ptr
<1>6. WaitCoherent'
  BY <1>1, <1>3, SchedAssumption DEF IInv, WaitCoherent, Alive, TypeOK, Ptr
<1>7. CanceledNeverBlocks' /\ CloseNotForgotten' /\ WaitNotForgotten'
  BY <1>1, <1>3 DEF IInv, CanceledNeverBlocks, CloseNotForgotten, WaitNotForgotten,
     Alive, TypeOK, Suspended
<1>8. FreedOnlyFinished'
  BY <1>1, <1>3, NoAnswer
<1> QED BY <1>2, <1>4, <1>5, <1>6, <1>7, <1>8 DEF IInv

LEMMA FdReturnLists ==
  ASSUME IInv, FdLists, FdNotForgotten, NEW c \in Crs, FdReturn(c)
  PROVE  /\ IInv' /\ FdLists' /\ FdNotForgotten' /\ Alive
         /\ UNCHANGED <<wq, abort, opened, cached>>
<1>1. /\ Alive /\ r = c /\ call[c] = InExt /\ call' = [call EXCEPT ![c] = Idle]
      /\ UNCHANGED <<r, ready, wq, abort, live, done, opened, cached>>
  BY DEF FdReturn, Running, schedVars, fdVars
<1>2. IInv' /\ ExtSound /\ call \in [Crs -> Frames]
  BY FdReturnIInv, FdExtSound DEF IInv, TypeOK
<1>3. ASSUME NEW e \in Endpoints, NEW x \in Range(wq[e]) PROVE x # c /\ x \in Crs
  BY <1>1, <1>2, Blocked
<1>4. /\ \A x \in Crs \ {c} : call'[x] = call[x]
      /\ \A x : Suspended(x)' <=> Suspended(x)
      /\ call'[c] = Idle /\ Idle # InExt
  BY <1>1, <1>2, FrameTypes DEF Suspended
<1>5. FdLists'
  BY <1>1, <1>3, <1>4 DEF FdLists
<1>6. FdNotForgotten'
  BY <1>1, <1>4 DEF FdNotForgotten
<1> QED BY <1>1, <1>2, <1>5, <1>6

LEMMA FdReturnEpoll ==
  ASSUME EpollInv, NEW c \in Crs, FdReturn(c), UNCHANGED epollVars PROVE EpollInv'
<1>1. /\ IInv' /\ FdLists' /\ FdNotForgotten' /\ Alive
      /\ UNCHANGED <<wq, abort, opened, cached>>
  BY FdReturnLists DEF EpollInv
<1>2. EpollTypes' /\ KernelInSync' /\ CopyExact' /\ PollNeverLies'
  BY <1>1 DEF EpollInv, EpollTypes, KernelInSync, CopyExact, PollNeverLies, Waits, epollVars
<1> QED BY <1>1, <1>2 DEF EpollInv

\* fdin() and fdout() block.
LEMMA FdWaitLists ==
  ASSUME IInv, FdLists, FdNotForgotten, NEW c \in Crs, NEW d \in Dirs, NEW fd \in Fds,
         NEW delay \in FdDelays, FdWait(c, d, fd, delay)
  PROVE  /\ IInv' /\ FdLists' /\ FdNotForgotten' /\ Alive
         /\ UNCHANGED <<abort, backend, opened>> /\ cached' = cached \cup {fd}
         /\ \A g \in Fds \ {fd} : Waits(g)' = Waits(g)
         /\ Waits(fd)' = Waits(fd) \cup {d}
<1> DEFINE f == <<d, fd>>
<1>1. /\ Alive /\ r = c /\ call[c] = Idle /\ c \notin nb1
      /\ fd \in opened /\ wq[f] = <<>>
      /\ cached' = cached \cup {fd} /\ wq' = [wq EXCEPT ![f] = <<c>>]
      /\ SetTimer(c, 2, Deadline(delay)) /\ Suspend
      /\ call' = [call EXCEPT ![c] = InExt]
      /\ UNCHANGED <<ready, res, nb1, now, lastPoll, abort,
                     live, done, closer, owner, crs, waiter, opened, backend>>
  BY DEF FdWait, User, Running, CanBlock, Busy, Waits
<1>2. IInv /\ ExtSound /\ wq \in [Endpoints -> Seq(Crs)] /\ call \in [Crs -> Frames]
        /\ now \in Nat
  BY FdExtSound DEF IInv, TypeOK
<1>3. f \in Endpoints /\ f[2] = fd /\ \A b \in Dirs, g \in Fds : g # fd => <<b, g>> # f
  BY EndpointFacts
<1>4. Range(<<c>>) = {c} /\ <<c>> \in Seq(Crs) /\ <<c>> # <<>>
  BY RangeSmall
<1> HIDE DEF f
<1>5. Alive' /\ r' = NoCr /\ NoCr \notin Crs
  BY <1>1, SchedAssumption DEF Alive, Suspend
<1>6. IInv'
  <2>1. Deadline(delay) \in Int
    BY <1>2, PollsetAssumption DEF Deadline, Forever
  <2>2. wq' \in [Endpoints -> Seq(Crs)]
    BY <1>1, <1>2, <1>3, <1>4
  <2> QED BY <1>1, <1>2, <2>1, <2>2, BlockIInv
<1>7. /\ \A e \in Endpoints \ {f} : wq'[e] = wq[e]
      /\ wq'[f] = <<c>>
      /\ \A x \in Crs \ {c} : call'[x] = call[x]
      /\ call'[c] = InExt
  BY <1>1, <1>2, <1>3
<1>8. c \in live \ done /\ c \notin Range(ready)
  BY <1>1, <1>2, <1>5 DEF IInv, ReadyQueueSound
<1>9. \A x \in Crs \ {c} : Suspended(x)' <=> Suspended(x)
  BY <1>1, <1>5 DEF Suspended
<1>10. Suspended(c)'
  BY <1>1, <1>5, <1>8 DEF Suspended
<1>11. ASSUME NEW e \in Endpoints, NEW x \in Range(wq[e]) PROVE x # c /\ x \in Crs
  BY <1>1, <1>2, Blocked
<1>12. FdLists'
  <2>1. opened' \subseteq Fds /\ cached' \subseteq opened' /\ cached \subseteq cached'
    BY <1>1 DEF FdLists
  <2>2. \A x \in Crs : call'[x] = InExt => x \in live' \ done'
    BY <1>1, <1>7, <1>8 DEF FdLists
  <2>3. ASSUME NEW e \in Endpoints, NEW x \in Range(wq'[e])
        PROVE  wq'[e] = <<x>> /\ call'[x] = InExt /\ Suspended(x)' /\ e[2] \in cached'
    <3>1. CASE e = f
      BY <1>1, <1>3, <1>4, <1>7, <1>10, <2>3, <3>1
    <3>2. CASE e # f
      <4>1. wq'[e] = wq[e] /\ x \in Range(wq[e])
        BY <1>7, <2>3, <3>2
      <4>2. wq[e] = <<x>> /\ call[x] = InExt /\ Suspended(x) /\ e[2] \in cached
        BY <1>1, <4>1 DEF FdLists
      <4> QED BY <1>7, <1>9, <1>11, <2>1, <4>1, <4>2
    <3> QED BY <3>1, <3>2
  <2>4. ASSUME NEW e \in Endpoints, NEW g \in Endpoints, e # g
        PROVE  Range(wq'[e]) \cap Range(wq'[g]) = {}
    <3>1. CASE e # f /\ g # f
      BY <1>1, <1>7, <2>4, <3>1 DEF FdLists
    <3>2. CASE e = f \/ g = f
      BY <1>4, <1>7, <1>11, <2>4, <3>2
    <3> QED BY <3>1, <3>2
  <2> QED BY <2>1, <2>2, <2>3, <2>4 DEF FdLists
<1>13. FdNotForgotten'
  <2>1. ASSUME NEW x \in Crs, call'[x] = InExt, Suspended(x)'
        PROVE  \E e \in Endpoints : x \in Range(wq'[e])
    <3>1. CASE x = c
      BY <1>3, <1>4, <1>7, <3>1
    <3>2. CASE x # c
      <4>1. PICK e \in Endpoints : x \in Range(wq[e])
        BY <1>1, <1>7, <1>9, <2>1, <3>2 DEF FdNotForgotten
      <4>2. e # f
        BY <1>1, <4>1, RangeSmall
      <4> QED BY <1>7, <4>1, <4>2
    <3> QED BY <3>1, <3>2
  <2> QED BY <2>1 DEF FdNotForgotten
<1>14. \A g \in Fds \ {fd} : Waits(g)' = Waits(g)
  BY <1>3, <1>7, EndpointFacts DEF Waits
<1>15. Waits(fd)' = Waits(fd) \cup {d}
  <2>1. ASSUME NEW b \in Dirs, b # d PROVE <<b, fd>> \in Endpoints \ {f}
    BY <2>1, EndpointFacts DEF f
  <2>2. \A b \in Dirs : b # d => wq'[<<b, fd>>] = wq[<<b, fd>>]
    BY <1>7, <2>1
  <2>3. wq'[<<d, fd>>] # <<>>
    BY <1>4, <1>7 DEF f
  <2> QED BY <2>2, <2>3 DEF Waits
<1> QED BY <1>1, <1>6, <1>12, <1>13, <1>14, <1>15

LEMMA EpollWaitEpoll ==
  ASSUME EpollInv, NEW c \in Crs, NEW d \in Dirs, NEW fd \in Fds, NEW delay \in FdDelays,
         EpollWait(c, d, fd, delay)
  PROVE  EpollInv'
<1>1. /\ IInv' /\ FdLists' /\ FdNotForgotten' /\ Alive
      /\ UNCHANGED <<abort, backend, opened>> /\ cached' = cached \cup {fd}
      /\ \A g \in Fds \ {fd} : Waits(g)' = Waits(g)
  BY FdWaitLists DEF EpollInv, EpollWait
<1>2. changelist' = changelist \cup {fd} /\ PollNeverLies'
  BY <1>1 DEF EpollWait, EpollInv, PollNeverLies
<1>3. /\ kset \in [Fds -> SUBSET Dirs] /\ currevs \in [Fds -> SUBSET Dirs]
      /\ changelist \subseteq Fds /\ currevs[fd] = kset[fd]
  BY <1>1 DEF EpollInv, CopyExact, EpollTypes
<1>4. /\ kset' \in [Fds -> SUBSET Dirs] /\ currevs' \in [Fds -> SUBSET Dirs]
      /\ \A g \in Fds \ {fd} : kset'[g] = kset[g] /\ currevs'[g] = currevs[g]
      /\ kset'[fd] = currevs'[fd]
  BY <1>3 DEF EpollWait
<1>5. EpollTypes'
  BY <1>2, <1>3, <1>4 DEF EpollTypes
<1>6. KernelInSync'
  BY <1>1, <1>2, <1>4 DEF EpollInv, KernelInSync
<1>7. CopyExact'
  BY <1>1, <1>2, <1>4 DEF EpollInv, CopyExact
<1> QED BY <1>1, <1>2, <1>5, <1>6, <1>7 DEF EpollInv

-----------------------------------------------------------------------------
(***************************************************************************)
(* The poll.                                                               *)
(***************************************************************************)

\* dill_wait after a poll that has triggered the coroutines of q, among them
\* nobody that could run, and some if it claims to have triggered any. It goes on
\* with one of those that can run.
LEMMA PollRoundFacts ==
  ASSUME IInv, FdLists, Alive, r = NoCr, UNCHANGED crVars,
         NEW q \in Seq(Crs), NoDup(q),
         \A x \in Range(q) : call[x] = InExt /\ Suspended(x),
         NEW fired, fired => q # <<>>, PollRound(fired, q)
  PROVE  /\ IInv' /\ Alive' /\ Shrinking
         /\ \A e \in Endpoints : Range(wq'[e]) \cap Range(q) = {}
<1> DEFINE late == Without(Due, Range(q))
           woken == q \o late
           w == ready \o woken
           f == [c \in Crs |-> IF c \in Range(q) THEN Result(1, "0")
                               ELSE IF c \in Range(late)
                               THEN Result(tm[c].id, "ETIMEDOUT")
                               ELSE res[c]]
<1>1. /\ TypeOK /\ ready \in Seq(Crs) /\ timers \in Seq(Crs) /\ res \in [Crs -> Results]
      /\ tm \in [Crs -> [at : Nat, id : Nat]] /\ wq \in [Endpoints -> Seq(Crs)]
      /\ NoDup(ready) /\ NoDup(timers) /\ Range(ready) \cap Range(timers) = {}
      /\ Range(ready) \cup Range(timers) \subseteq live \ done
  BY DEF IInv, TypeOK, ReadyQueueSound
<1>2. Due \in Seq(Crs) /\ Range(Due) \subseteq Range(timers) /\ NoDup(Due)
  BY <1>1, DueFacts
<1>3. late \in Seq(Crs) /\ Range(late) = Range(Due) \ Range(q) /\ NoDup(late)
  BY <1>2, WithoutFacts
<1>4. \A x \in Range(q) : x \in Crs /\ x \notin Range(ready) /\ x \in live \ done
  BY RangeDef DEF FdLists, Suspended
<1>5. f \in [Crs -> Results]
  BY <1>1 DEF Result, Results, Errors
<1>6. \A x \in Crs : x \notin Range(q) /\ x \notin Range(late) => f[x] = res[x]
  OBVIOUS
<1>7. \A x \in Crs : x \in Range(q) \/ x \in Range(late) => f[x] # Result(-1, "0")
  BY Answers DEF Result
<1>8. ready # <<>> \/ q # <<>> \/ late # <<>>
  BY DEF PollRound
<1>9. \/ Range(woken) \cap Range(ready) # {} \/ w = <<>>
      \/ CancelClauses(Range(woken)) /\ Jump(w, f) /\ lastPoll' = now
           /\ UNCHANGED <<nb1, now, abort>>
  BY DEF PollRound
<1> HIDE DEF late, f
<1>10. woken \in Seq(Crs) /\ Range(woken) = Range(q) \cup Range(late) /\ NoDup(woken)
  BY <1>3, RangeConcat
<1> HIDE DEF woken
<1>11. Range(woken) \cap Range(ready) = {}
  BY <1>1, <1>2, <1>3, <1>4, <1>10
<1>12. w \in Seq(Crs) /\ Range(w) = Range(ready) \cup Range(woken) /\ NoDup(w)
  BY <1>1, <1>10, <1>11, RangeConcat
<1> HIDE DEF w
<1>13. w # <<>>
  <2>1. Range(ready) # {} \/ Range(q) # {} \/ Range(late) # {}
    BY <1>1, <1>3, <1>8, RangeDef
  <2> QED BY <1>10, <1>12, <2>1, RangeDef
<1>14. CancelClauses(Range(woken)) /\ Jump(w, f) /\ lastPoll' = now
         /\ UNCHANGED <<nb1, now, abort>>
  BY <1>9, <1>11, <1>13
<1>15. /\ r' \in Crs /\ r' \in Range(w)
       /\ ready' \in Seq(Crs)
       /\ Range(w) = Range(ready') \cup {r'}
       /\ NoDup(ready') /\ r' \notin Range(ready')
       /\ ret' \in Results /\ ret' = f[r']
       /\ res' \in [Crs -> Results]
       /\ \A x \in Crs : res'[x] \in {f[x], NoResult}
  BY <1>5, <1>12, <1>13, <1>14, JumpFacts
<1>16. /\ timers' \in Seq(Crs)
       /\ Range(timers') = Range(timers) \ Range(woken)
       /\ NoDup(timers')
       /\ tm' \in [Crs -> [at : Nat, id : Nat]]
       /\ wq' \in [Endpoints -> Seq(Crs)]
  BY <1>1, <1>14, CancelClausesFacts
<1>17. /\ \A x \in Crs : Suspended(x)' <=> Suspended(x) /\ x \notin Range(woken)
       /\ NoCr \notin Crs
  BY <1>12, <1>15, SchedAssumption DEF Suspended
<1>18. IInv'
  <2>1. TypeOK'
    BY <1>1, <1>14, <1>15, <1>16 DEF TypeOK, crVars, Ptr
  <2>2. Range(woken) \subseteq live \ done
    BY <1>1, <1>2, <1>3, <1>4, <1>10
  <2>3. ReadyQueueSound'
    <3>1. /\ r' \notin Range(timers') /\ Range(ready') \cap Range(timers') = {}
          /\ Range(ready') \cup Range(timers') \cup {r'} \subseteq live \ done
      BY <1>1, <1>12, <1>15, <1>16, <2>2
    <3> QED BY <1>15, <1>16, <3>1 DEF ReadyQueueSound, crVars
  <2>4. FreedOnlyFinished'
    <3>1. \A x \in Crs : f[x] = Result(-1, "0") /\ x \in Range(w)
            => x \in Range(ready) /\ res[x] = Result(-1, "0")
      BY <1>6, <1>7, <1>10, <1>12
    <3>2. Range(ready') \subseteq Range(w)
      BY <1>15
    <3> QED BY <1>15, <3>1, <3>2, Answers, NoAnswer DEF crVars
  <2> QED BY <1>14, <1>17, <2>1, <2>3, <2>4, CrVarsUnchanged, NoneSuspended DEF IInv
<1>19. \A e \in Endpoints : /\ Range(wq'[e]) = Range(wq[e]) \ Range(woken)
                            /\ NoDup(wq[e]) => NoDup(wq'[e])
  <2>1. \A e \in Endpoints : wq'[e] = Without(wq[e], Range(woken)) /\ wq[e] \in Seq(Crs)
    BY <1>1, <1>14 DEF CancelClauses
  <2> QED BY <2>1, WithoutFacts
<1>20. \A e \in Endpoints : \A x \in Range(wq[e]) : x \in Crs /\ Suspended(x)
  BY FdExtSound, Blocked
<1>21. Shrinking
  <2>1. \A x \in Crs : call[x] = InExt => x \in live \ done
    BY DEF FdLists
  <2> QED BY <1>17, <1>19, <1>20, <2>1 DEF Shrinking, crVars
<1>22. \A e \in Endpoints : Range(wq'[e]) \cap Range(q) = {}
  BY <1>10, <1>19
<1> QED BY <1>14, <1>18, <1>21, <1>22 DEF Alive

\* The coroutines behind the clauses that are triggered: each one once, all of
\* them blocked in fdin() or fdout().
LEMMA TriggeredFacts ==
  ASSUME IInv, FdLists, Alive, NEW F, F \subseteq Endpoints,
         \A e \in F : wq[e] # <<>>, NEW order \in SetToSeqs(F),
         NEW q, q = [i \in DOMAIN order |-> Head(wq[order[i]])]
  PROVE  /\ q \in Seq(Crs) /\ NoDup(q)
         /\ \A x \in Range(q) : call[x] = InExt /\ Suspended(x)
         /\ F # {} => q # <<>>
<1>1. IsFiniteSet(F)
  BY EndpointFacts, FS_Subset
<1>2. /\ order \in Seq(F) /\ DOMAIN order = 1..Len(order) /\ Len(order) \in Nat
      /\ \A i, j \in DOMAIN order : order[i] = order[j] => i = j
      /\ F # {} => order # <<>>
  BY <1>1, OrderFacts
<1>3. ASSUME NEW e \in F
      PROVE  Head(wq[e]) \in Crs /\ Head(wq[e]) \in Range(wq[e])
               /\ call[Head(wq[e])] = InExt /\ Suspended(Head(wq[e]))
  <2>1. Head(wq[e]) \in Crs /\ Head(wq[e]) \in Range(wq[e])
    BY ListFacts
  <2> QED BY <2>1 DEF FdLists
<1>4. \A i \in 1..Len(order) : order[i] \in F /\ q[i] = Head(wq[order[i]])
  BY <1>2
<1>5. q \in Seq(Crs) /\ Len(q) = Len(order) /\ DOMAIN q = 1..Len(order)
  <2>1. \A i \in 1..Len(order) : Head(wq[order[i]]) \in Crs
    BY <1>3, <1>4
  <2> QED BY <1>2, <2>1
<1>6. \A x \in Range(q) : call[x] = InExt /\ Suspended(x)
  <2>1. \A x \in Range(q) : \E i \in 1..Len(order) : x = q[i]
    BY <1>5 DEF Range
  <2> QED BY <1>3, <1>4, <2>1
<1>7. NoDup(q)
  <2>1. ASSUME NEW i \in 1..Len(order), NEW j \in 1..Len(order), q[i] = q[j] PROVE i = j
    <3>1. order[i] \in F /\ order[j] \in F /\ q[i] \in Range(wq[order[i]])
            /\ q[i] \in Range(wq[order[j]])
      BY <1>3, <1>4, <2>1
    <3>2. order[i] = order[j]
      BY <3>1 DEF FdLists
    <3> QED BY <1>2, <3>2
  <2> QED BY <1>5, <2>1 DEF NoDup
<1>8. F # {} => q # <<>>
  BY <1>2, <1>5
<1> QED BY <1>5, <1>6, <1>7, <1>8

\* The poll brings the kernel up to date, and is told only of what is waited for.
LEMMA EpollPollEpoll ==
  ASSUME EpollInv, EpollPoll PROVE EpollInv'
<1>1. Alive /\ r = NoCr /\ UNCHANGED <<crVars, fdVars>>
  BY DEF EpollPoll
<1>2. IInv /\ FdLists /\ FdNotForgotten /\ PollNeverLies
  BY DEF EpollInv
<1>3. ASSUME NEW fd \in Fds PROVE ~CtlFails(fd) /\ Applied[fd] = Waits(fd)
  <2>1. /\ currevs[fd] = kset[fd] /\ (fd \in changelist => fd \in opened)
        /\ (fd \notin changelist => kset[fd] = Waits(fd))
    BY <1>1 DEF EpollInv, CopyExact, FdLists, KernelInSync
  <2> QED BY <2>1 DEF CtlFails, Applied
<1>4. PICK rep \in Reports : \E order \in SetToSeqs(Fired(Reported(rep))) :
         /\ PollRound(\E fd \in Fds : Reported(rep)[fd] # {},
                      [i \in DOMAIN order |-> Head(wq[order[i]])])
         /\ kset' = Applied
         /\ currevs' = [fd \in Fds |-> IF fd \in changelist THEN Waits(fd)
                                       ELSE currevs[fd]]
         /\ changelist' = Dropped
  BY <1>3 DEF EpollPoll
<1> DEFINE evs == Reported(rep)
           F == Fired(evs)
<1>5. /\ \A fd \in Fds : evs[fd] # {} => \E e \in Endpoints : e \in F
      /\ F \subseteq Endpoints /\ \A e \in F : wq[e] # <<>>
  <2>1. F \subseteq Endpoints /\ \A e \in F : wq[e] # <<>>
    BY DEF Fired
  <2>2. ASSUME NEW fd \in Fds, evs[fd] # {} PROVE \E e \in Endpoints : e \in F
    <3>1. evs[fd] = IF Applied[fd] = {} THEN {} ELSE rep[fd] \cap (Applied[fd] \cup {"err"})
      BY DEF Reported
    <3>2. Waits(fd) # {} /\ evs[fd] \subseteq Waits(fd) \cup {"err"}
      BY <1>3, <2>2, <3>1
    <3>3. PICK d \in Waits(fd) : d \in evs[fd] \/ "err" \in evs[fd]
      BY <2>2, <3>2
    <3>4. d \in Dirs /\ wq[<<d, fd>>] # <<>> /\ <<d, fd>> \in Endpoints
      BY <3>3, EndpointFacts DEF Waits
    <3>5. <<d, fd>> \in F
      BY <3>3, <3>4 DEF Fired
    <3> QED BY <3>4, <3>5
  <2> QED BY <2>1, <2>2
<1>6. PICK order \in SetToSeqs(F) :
         /\ PollRound(\E fd \in Fds : evs[fd] # {},
                      [i \in DOMAIN order |-> Head(wq[order[i]])])
         /\ kset' = Applied
         /\ currevs' = [fd \in Fds |-> IF fd \in changelist THEN Waits(fd)
                                       ELSE currevs[fd]]
         /\ changelist' = Dropped
  BY <1>4
<1> HIDE DEF F
<1> DEFINE q == [i \in DOMAIN order |-> Head(wq[order[i]])]
           fired == \E fd \in Fds : evs[fd] # {}
<1>7. /\ q \in Seq(Crs) /\ NoDup(q)
      /\ \A x \in Range(q) : call[x] = InExt /\ Suspended(x)
      /\ F # {} => q # <<>>
  BY <1>1, <1>2, <1>5, TriggeredFacts
<1>8. fired => q # <<>>
  BY <1>5, <1>7
<1>9. PollRound(fired, q)
  BY <1>6
<1> HIDE DEF q, fired, evs
<1>10. UNCHANGED crVars
  BY <1>1
<1>11. IInv' /\ Alive' /\ Shrinking
  BY <1>1, <1>2, <1>7, <1>8, <1>9, <1>10, PollRoundFacts
<1>12. FdLists' /\ FdNotForgotten'
  BY <1>1, <1>2, <1>11, ShrinkFdLists
<1>13. /\ \A fd \in Fds : fd \notin Dropped => Waits(fd)' = Waits(fd)
       /\ \A fd \in Fds : fd \notin cached => Waits(fd) = {} /\ fd \notin Dropped
  BY <1>1, <1>2, <1>11, DroppedFacts
<1>14. \A fd \in Fds : kset'[fd] = Waits(fd) /\ currevs'[fd] = Waits(fd)
  <2>1. \A fd \in Fds : fd \notin changelist => currevs[fd] = Waits(fd)
    BY <1>1 DEF EpollInv, CopyExact, KernelInSync
  <2> QED BY <1>3, <1>6, <2>1
<1>15. EpollTypes'
  <2>1. Applied \in [Fds -> SUBSET Dirs] /\ currevs' \in [Fds -> SUBSET Dirs]
    BY <1>1, <1>6 DEF Applied, EpollInv, EpollTypes, Waits
  <2>2. Dropped \subseteq Fds
    BY DEF Dropped
  <2> QED BY <1>6, <2>1, <2>2 DEF EpollTypes
<1>16. KernelInSync'
  BY <1>6, <1>13, <1>14 DEF KernelInSync
<1>17. CopyExact'
  BY <1>1, <1>6, <1>13, <1>14 DEF CopyExact, fdVars
<1>18. PollNeverLies'
  BY <1>11 DEF Alive, PollNeverLies
<1> QED BY <1>11, <1>12, <1>15, <1>16, <1>17, <1>18 DEF EpollInv

-----------------------------------------------------------------------------
(***************************************************************************)
(* The theorem.                                                            *)
(***************************************************************************)

\* The initial state.
LEMMA InitEpollInv == EpollInit => EpollInv
<1> SUFFICES ASSUME EpollInit PROVE EpollInv
  OBVIOUS
<1>1. Init /\ opened = {} /\ cached = {} /\ changelist = {}
        /\ currevs = [fd \in Fds |-> {}] /\ kset = [fd \in Fds |-> {}]
  BY DEF EpollInit, FdInit
<1>2. IInv
  BY <1>1, InitIInv
<1>3. /\ \A e \in Endpoints : wq[e] = <<>>
      /\ \A x \in Crs : call[x] = Idle
      /\ Idle # InExt /\ Range(<<>>) = {} /\ abort = "none"
  BY <1>1, RangeSmall, FrameTypes DEF Init, SchedInit
<1>4. FdLists /\ FdNotForgotten
  BY <1>1, <1>3 DEF FdLists, FdNotForgotten
<1>5. \A fd \in Fds : Waits(fd) = {}
  BY <1>3, EndpointFacts DEF Waits
<1>6. EpollTypes /\ KernelInSync /\ CopyExact /\ PollNeverLies
  BY <1>1, <1>3, <1>5 DEF EpollTypes, KernelInSync, CopyExact, PollNeverLies
<1> QED BY <1>2, <1>4, <1>6 DEF EpollInv

\* Every step preserves the invariant.
LEMMA EpollNextInv == EpollInv /\ [EpollNext]_epollAll => EpollInv'
<1> SUFFICES ASSUME EpollInv, [EpollNext]_epollAll PROVE EpollInv'
  OBVIOUS
<1>1. CASE EpollPoll
  BY <1>1, EpollPollEpoll
<1>2. CASE Elsewhere /\ changelist' = Changed /\ UNCHANGED <<fdVars, currevs, kset>>
  BY <1>2, ElsewhereEpoll
<1>3. ASSUME NEW c \in Crs, EpollStep(c) PROVE EpollInv'
  BY <1>3, DescriptorEpoll, EpollWaitEpoll, FdReturnEpoll DEF EpollStep
<1>4. CASE UNCHANGED epollAll
  <2>1. UNCHANGED <<vars, fdVars, currevs, changelist, kset>> /\ IInv
    BY <1>4 DEF epollAll, epollVars, EpollInv
  <2>2. /\ IInv' /\ (Alive' <=> Alive) /\ (PollNeverLies => PollNeverLies')
        /\ UNCHANGED <<wq, call, live, done, r, ready>>
        /\ \A fd \in Fds : Waits(fd)' = Waits(fd)
        /\ \A x : Suspended(x)' <=> Suspended(x)
    BY <2>1, VarsUnchanged
  <2>3. FdLists' /\ FdNotForgotten'
    BY <2>1, <2>2 DEF EpollInv, FdLists, FdNotForgotten, fdVars
  <2>4. EpollTypes' /\ KernelInSync' /\ CopyExact'
    BY <2>1, <2>2 DEF EpollInv, EpollTypes, KernelInSync, CopyExact, fdVars
  <2> QED BY <2>2, <2>3, <2>4 DEF EpollInv
<1> QED BY <1>1, <1>2, <1>3, <1>4 DEF EpollNext

\* Waiting by epoll.c.inc is sound for any number of coroutines, bundles and
\* descriptors: a descriptor somebody waits for is registered in the kernel, for
\* just these events, or on the changelist, so no wake-up is lost; every
\* epoll_ctl of dill_pollset_poll succeeds; and the poll never claims an event
\* without having resumed anybody.
THEOREM EpollCorrect == EpollSpec => []EpollSound
<1>1. EpollInv => EpollSound
  BY InvFdinfo DEF EpollInv, EpollSound
<1> QED BY <1>1, InitEpollInv, EpollNextInv, PTL DEF EpollSpec
-----------------------------------------------------------------------------
(***************************************************************************)
(* The poll back end: the array.                                           *)
(***************************************************************************)

\* Array and indices as the operations on them see them.
Tables == [set : [0..LastSlot -> Slots], size : 0..Cardinality(Fds),
           idx : [Fds -> (-1)..LastSlot], at : 0..Cardinality(Fds), q : Seq(Crs), bad : BOOLEAN]

\* The slots in use hold different descriptors, and each leads back to its slot.
Matches(s) ==
  /\ \A i \in 0..(s.size - 1) : s.idx[s.set[i].fd] = i
  /\ \A fd \in Fds : s.idx[fd] # -1 =>
        s.idx[fd] \in 0..(s.size - 1) /\ s.set[s.idx[fd]].fd = fd

ArrayTypes == Alive => Array \in Tables

PollInv == IInv /\ FdLists /\ FdNotForgotten /\ ArrayTypes /\ ArraySound

\* There are finitely many descriptors.
LEMMA FdsFinite == IsFiniteSet(Fds) /\ Cardinality(Fds) \in Nat
BY PollsetAssumption, FS_CardinalityType

LEMMA TableFacts ==
  ASSUME NEW s \in Tables
  PROVE  /\ s.set \in [0..LastSlot -> Slots] /\ s.size \in Nat /\ s.size <= LastSlot + 1
         /\ s.idx \in [Fds -> (-1)..LastSlot] /\ s.at \in Nat /\ s.at <= LastSlot + 1
         /\ s.q \in Seq(Crs) /\ s.bad \in BOOLEAN /\ LastSlot \in Int
         /\ LastSlot + 1 = Cardinality(Fds)
         /\ \A i \in 0..LastSlot : s.set[i].fd \in Fds /\ s.set[i].events \in SUBSET Dirs
         /\ \A i \in 0..(s.size - 1) : i \in 0..LastSlot
BY FdsFinite DEF Tables, LastSlot, Slots

\* The array has room for a descriptor that is not in it.
LEMMA RoomLeft ==
  ASSUME NEW s \in Tables, Matches(s), NEW fd \in Fds, s.idx[fd] = -1
  PROVE  s.size <= LastSlot
<1> SUFFICES ASSUME ~(s.size <= LastSlot) PROVE FALSE
  OBVIOUS
<1> DEFINE S == 0..(s.size - 1)
           T == Fds \ {fd}
           f == [i \in S |-> s.set[i].fd]
<1>1. s.size = Cardinality(Fds) /\ s.size \in Nat
  BY TableFacts
<1>2. IsFiniteSet(S) /\ Cardinality(S) = s.size
  <2>1. s.size = 0 \/ ~(0 > s.size - 1)
    BY <1>1
  <2> QED BY <1>1, <2>1, FS_Interval
<1>3. IsFiniteSet(T) /\ Cardinality(T) = Cardinality(Fds) - 1
  BY FdsFinite, FS_RemoveElement
<1>4. f \in [S -> T]
  <2>1. ASSUME NEW i \in S PROVE s.set[i].fd \in Fds /\ s.set[i].fd # fd
    BY TableFacts DEF Matches
  <2> QED BY <2>1
<1>5. Cardinality(T) < Cardinality(S)
  BY <1>1, <1>2, <1>3
<1> HIDE DEF S, T
<1>6. PICK x, y \in S : x # y /\ f[x] = f[y]
  <2> HIDE DEF f
  <2> QED BY <1>2, <1>3, <1>4, <1>5, FS_PigeonHole
<1>7. s.set[x].fd = s.set[y].fd
  BY <1>6
<1> QED BY <1>6, <1>7 DEF Matches, S

\* Removing a descriptor keeps array and indices in step: the last one may move to
\* its slot, the others stay where they are.
LEMMA RemovedFacts ==
  ASSUME NEW s \in Tables, Matches(s), NEW fd \in Fds, s.idx[fd] # -1,
         NEW t, t = Removed(s, fd)
  PROVE  /\ t \in Tables /\ Matches(t)
         /\ t.size = s.size - 1 /\ t.at = s.at /\ t.q = s.q /\ t.bad = s.bad
         /\ t.idx[fd] = -1
         /\ \A g \in Fds \ {fd} :
              IF s.idx[g] = -1 THEN t.idx[g] = -1
              ELSE /\ t.idx[g] # -1 /\ t.set[t.idx[g]] = s.set[s.idx[g]]
                   /\ IF s.idx[g] = s.size - 1 THEN t.idx[g] = s.idx[fd]
                      ELSE t.idx[g] = s.idx[g]
<1> DEFINE i == s.idx[fd]
           n == s.size - 1
           last == s.set[n]
           h == last.fd
           idxs == IF i # n THEN [s.idx EXCEPT ![h] = i] ELSE s.idx
           ix == [idxs EXCEPT ![fd] = -1]
           st == [s.set EXCEPT ![i] = last]
<1>1. /\ s.set \in [0..LastSlot -> Slots] /\ s.size \in Nat /\ s.size <= LastSlot + 1
      /\ s.idx \in [Fds -> (-1)..LastSlot] /\ LastSlot \in Int
      /\ \A k \in 0..LastSlot : s.set[k].fd \in Fds
      /\ LastSlot + 1 = Cardinality(Fds)
  BY TableFacts
<1>2. i \in 0..n /\ s.set[i].fd = fd /\ n \in 0..LastSlot /\ i \in 0..LastSlot
  BY <1>1 DEF Matches
<1>3. h \in Fds /\ s.idx[h] = n /\ last \in Slots
  BY <1>1, <1>2 DEF Matches
<1>4. t = [s EXCEPT !.size = n, !.set[i] = last, !.idx = ix]
  BY DEF Removed
<1>5. /\ t.size = n /\ t.set = st /\ t.idx = ix /\ t.at = s.at /\ t.q = s.q /\ t.bad = s.bad
      /\ DOMAIN t = {"set", "size", "idx", "at", "q", "bad"}
  BY <1>4 DEF Tables
<1> HIDE DEF last
<1>6. st \in [0..LastSlot -> Slots] /\ st[i] = last
        /\ \A k \in 0..LastSlot : k # i => st[k] = s.set[k]
  BY <1>1, <1>2, <1>3
<1>7. ix \in [Fds -> (-1)..LastSlot] /\ ix[fd] = -1
        /\ \A g \in Fds : g # fd /\ g # h => ix[g] = s.idx[g]
        /\ (h # fd => ix[h] = i)
  <2>1. (-1) \in (-1)..LastSlot /\ i \in (-1)..LastSlot
    BY <1>1, <1>2
  <2>2. h = fd <=> i = n
    BY <1>2, <1>3 DEF last
  <2> HIDE DEF h, i, n
  <2>3. idxs \in [Fds -> (-1)..LastSlot]
    BY <1>1, <1>3, <2>1
  <2>4. \A g \in Fds : idxs[g] = IF i # n /\ g = h THEN i ELSE s.idx[g]
    BY <1>1, <1>3
  <2> HIDE DEF idxs
  <2>5. ix \in [Fds -> (-1)..LastSlot] /\ ix[fd] = -1 /\ \A g \in Fds : g # fd => ix[g] = idxs[g]
    BY <2>1, <2>3
  <2> QED BY <1>3, <2>2, <2>4, <2>5
<1>8. \A g \in Fds : s.idx[g] = n => g = h
  BY <1>1, <1>2 DEF Matches, last
<1>9. ASSUME NEW g \in Fds \ {fd}
      PROVE  IF s.idx[g] = -1 THEN t.idx[g] = -1
             ELSE /\ t.idx[g] # -1 /\ t.set[t.idx[g]] = s.set[s.idx[g]]
                  /\ IF s.idx[g] = n THEN t.idx[g] = i ELSE t.idx[g] = s.idx[g]
  <2>1. CASE g = h
    <3>1. s.idx[g] = n /\ n # -1 /\ t.idx[g] = i /\ i # -1
      BY <1>2, <1>3, <1>5, <1>7, <1>9, <2>1
    <3>2. t.set[i] = last /\ s.set[n] = last
      BY <1>5, <1>6 DEF last
    <3> QED BY <3>1, <3>2
  <2>2. CASE g # h
    <3>1. t.idx[g] = s.idx[g] /\ s.idx[g] # n
      BY <1>5, <1>7, <1>8, <1>9, <2>2
    <3>2. CASE s.idx[g] # -1
      <4>1. s.idx[g] \in 0..n /\ s.set[s.idx[g]].fd = g
        BY <1>9, <3>2 DEF Matches
      <4>2. s.idx[g] # i /\ s.idx[g] \in 0..LastSlot
        BY <1>1, <1>2, <1>9, <4>1
      <4>3. t.set[s.idx[g]] = s.set[s.idx[g]]
        BY <1>5, <1>6, <4>2
      <4> QED BY <3>1, <3>2, <4>3
    <3> QED BY <3>1, <3>2
  <2> QED BY <2>1, <2>2
<1>10. t \in Tables
  <2>1. n \in 0..Cardinality(Fds)
    BY <1>1, <1>2
  <2>2. t = [set |-> st, size |-> n, idx |-> ix, at |-> s.at, q |-> s.q, bad |-> s.bad]
    BY <1>4 DEF Tables
  <2>3. s.at \in 0..Cardinality(Fds) /\ s.q \in Seq(Crs) /\ s.bad \in BOOLEAN
    BY DEF Tables
  <2> HIDE DEF st, ix, n, i
  <2> QED BY <1>6, <1>7, <2>1, <2>2, <2>3 DEF Tables
<1>11. Matches(t)
  <2>1. ASSUME NEW g \in Fds, t.idx[g] # -1
        PROVE  t.idx[g] \in 0..(t.size - 1) /\ t.set[t.idx[g]].fd = g
    <3>1. g # fd /\ s.idx[g] # -1 /\ t.set[t.idx[g]] = s.set[s.idx[g]]
      BY <1>5, <1>7, <1>9, <2>1
    <3>2. s.idx[g] \in 0..n /\ s.set[s.idx[g]].fd = g
      BY <3>1 DEF Matches
    <3>3. s.idx[g] = n => i # n
      BY <1>2, <3>1, <3>2
    <3>4. IF s.idx[g] = n THEN t.idx[g] = i ELSE t.idx[g] = s.idx[g]
      BY <1>9, <3>1
    <3> QED BY <1>1, <1>2, <1>5, <3>1, <3>2, <3>3, <3>4
  <2>2. ASSUME NEW k \in 0..(t.size - 1) PROVE t.idx[t.set[k].fd] = k
    <3>1. k \in 0..(n - 1) /\ k \in 0..LastSlot
      BY <1>1, <1>5
    <3>2. CASE k = i
      <4>1. t.set[k] = last /\ h # fd
        BY <1>2, <1>3, <1>5, <1>6, <3>1, <3>2
      <4> QED BY <1>3, <1>5, <1>7, <3>2, <4>1
    <3>3. CASE k # i
      <4>1. t.set[k] = s.set[k] /\ s.set[k].fd \in Fds /\ s.idx[s.set[k].fd] = k
        BY <1>1, <1>5, <1>6, <3>1, <3>3 DEF Matches
      <4>2. s.set[k].fd # fd /\ s.set[k].fd # h
        BY <1>1, <1>3, <3>1, <3>3, <4>1
      <4> QED BY <1>5, <1>7, <4>1, <4>2
    <3> QED BY <3>2, <3>3
  <2> QED BY <2>1, <2>2 DEF Matches
<1> QED BY <1>5, <1>7, <1>9, <1>10, <1>11

-----------------------------------------------------------------------------
(***************************************************************************)
(* The loop of dill_pollset_poll.                                          *)
(***************************************************************************)

\* The directions of fd that the report resumes.
Triggers(fd, revents) == {d \in Waits(fd) : revents[fd] \cap {d, "err"} # {}}

\* The loop is past fd, or fd is not in the array.
Seen(s, fd) == s.idx[fd] < s.at

\* The invariant of the loop: what is waited for and was not reported is still in
\* the array, and exactly who waits for what was reported of the descriptors seen
\* is triggered.
Swept(s, revents) ==
  /\ s.at <= s.size /\ s.bad = FALSE /\ Matches(s)
  /\ \A fd \in Fds : s.idx[fd] # -1 => idx[fd] # -1
  /\ \A fd \in Fds : Waits(fd) \ Triggers(fd, revents) # {} =>
       /\ s.idx[fd] # -1
       /\ Waits(fd) \ Triggers(fd, revents) \subseteq s.set[s.idx[fd]].events
  /\ \A fd \in Fds : ~Seen(s, fd) => Waits(fd) \subseteq s.set[s.idx[fd]].events
  /\ NoDup(s.q)
  /\ \A x : x \in Range(s.q) <=>
       \E fd \in Fds : Seen(s, fd) /\ \E d \in Triggers(fd, revents) : x \in Range(wq[<<d, fd>>])

\* Who is triggered by the report of one descriptor.
LEMMA FireFacts ==
  ASSUME IInv, FdLists, Alive, NEW fd \in Fds, NEW revents
  PROVE  /\ Fire(fd, revents[fd]) \in Seq(Crs) /\ NoDup(Fire(fd, revents[fd]))
         /\ \A x : x \in Range(Fire(fd, revents[fd])) <=>
              \E d \in Triggers(fd, revents) : x \in Range(wq[<<d, fd>>])
<1> DEFINE rep == revents[fd]
           a == IF rep \cap {"in", "err"} # {} THEN wq[<<"in", fd>>] ELSE <<>>
           b == IF rep \cap {"out", "err"} # {} THEN wq[<<"out", fd>>] ELSE <<>>
<1>1. /\ <<"in", fd>> \in Endpoints /\ <<"out", fd>> \in Endpoints
      /\ <<"in", fd>> # <<"out", fd>>
  BY EndpointFacts DEF Dirs
<1>2. ASSUME NEW e \in Endpoints
      PROVE  wq[e] \in Seq(Crs) /\ NoDup(wq[e]) /\ (wq[e] = <<>> => Range(wq[e]) = {})
  <2>1. wq[e] \in Seq(Crs) /\ (wq[e] # <<>> => wq[e] = <<Head(wq[e])>> /\ Head(wq[e]) \in Crs)
    BY ListFacts
  <2>2. CASE wq[e] = <<>>
    BY <2>1, <2>2, RangeSmall
  <2>3. CASE wq[e] # <<>>
    <3>1. NoDup(<<Head(wq[e])>>)
      BY <2>1, <2>3, RangeSmall
    <3> QED BY <2>1, <2>3, <3>1
  <2> QED BY <2>2, <2>3
<1>3. a \in Seq(Crs) /\ b \in Seq(Crs) /\ NoDup(a) /\ NoDup(b)
  <2>1. NoDup(<<>>) /\ <<>> \in Seq(Crs)
    BY DEF NoDup
  <2> QED BY <1>1, <1>2, <2>1
<1>4. /\ \A x : x \in Range(a) <=> rep \cap {"in", "err"} # {} /\ x \in Range(wq[<<"in", fd>>])
      /\ \A x : x \in Range(b) <=> rep \cap {"out", "err"} # {} /\ x \in Range(wq[<<"out", fd>>])
  <2>1. Range(<<>>) = {}
    BY RangeSmall
  <2> QED BY <2>1
<1>5. Range(a) \cap Range(b) = {}
  <2>1. Range(wq[<<"in", fd>>]) \cap Range(wq[<<"out", fd>>]) = {}
    BY <1>1 DEF FdLists
  <2> QED BY <1>4, <2>1
<1>6. Fire(fd, rep) = a \o b
  BY DEF Fire
<1> HIDE DEF a, b
<1>7. /\ Fire(fd, rep) \in Seq(Crs) /\ NoDup(Fire(fd, rep))
      /\ Range(Fire(fd, rep)) = Range(a) \cup Range(b)
  BY <1>3, <1>5, <1>6, RangeConcat
<1>8. \A d : d \in Triggers(fd, revents) <=>
         d \in {"in", "out"} /\ wq[<<d, fd>>] # <<>> /\ rep \cap {d, "err"} # {}
  BY DEF Triggers, Waits, Dirs
<1>9. \A d \in {"in", "out"} : \A x \in Range(wq[<<d, fd>>]) : wq[<<d, fd>>] # <<>>
  BY RangeSmall
<1>10. \A x : x \in Range(a) \/ x \in Range(b) <=>
          \E d \in Triggers(fd, revents) : x \in Range(wq[<<d, fd>>])
  <2> HIDE DEF rep
  <2> QED BY <1>4, <1>8, <1>9
<1> QED BY <1>7, <1>10

\* What a descriptor's turn does to its slot.
Emptied(s, fd, revents) ==
  [s EXCEPT !.set[s.at].events = @ \ Triggers(fd, revents), !.q = @ \o Fire(fd, revents[fd])]

LEMMA VisitDef ==
  ASSUME NEW s \in Tables, NEW revents, s.at < s.size,
         NEW fd, fd = s.set[s.at].fd, NEW t, t = Emptied(s, fd, revents)
  PROVE  Visit(s, revents) =
           IF s.set[s.at].events \ Triggers(fd, revents) = {}
           THEN [Removed(t, fd) EXCEPT !.bad = @ \/ Waits(fd) # Triggers(fd, revents)]
           ELSE [t EXCEPT !.at = @ + 1]
<1>1. t = [s EXCEPT !.set[s.at].events = s.set[s.at].events \ Triggers(fd, revents),
                    !.q = @ \o Fire(fd, revents[fd])]
  BY DEF Emptied
<1> QED BY <1>1 DEF Visit, Triggers

\* The slot is emptied of what was reported, everything else stays.
Turn(s, fd, t, revents) ==
  /\ fd \in Fds /\ s.idx[fd] = s.at
  /\ t \in Tables /\ Matches(t)
  /\ t.size = s.size /\ t.idx = s.idx /\ t.at = s.at /\ t.bad = FALSE
  /\ t.set[s.at].events = s.set[s.at].events \ Triggers(fd, revents)
  /\ \A g \in Fds \ {fd} : s.idx[g] # -1 => t.set[s.idx[g]] = s.set[s.idx[g]]
  /\ NoDup(t.q)
  /\ \A x : x \in Range(t.q) <=>
       \/ x \in Range(s.q)
       \/ \E d \in Triggers(fd, revents) : x \in Range(wq[<<d, fd>>])

LEMMA EmptiedFacts ==
  ASSUME IInv, FdLists, Alive, NEW revents, NEW s \in Tables, Swept(s, revents), s.at < s.size,
         NEW fd, fd = s.set[s.at].fd, NEW t, t = Emptied(s, fd, revents)
  PROVE  Turn(s, fd, t, revents)
<1>1. /\ s.set \in [0..LastSlot -> Slots] /\ s.size \in Nat /\ s.size <= LastSlot + 1
      /\ s.idx \in [Fds -> (-1)..LastSlot] /\ LastSlot \in Int /\ s.at \in Nat
      /\ s.q \in Seq(Crs)
      /\ \A k \in 0..LastSlot : s.set[k].fd \in Fds /\ s.set[k].events \in SUBSET Dirs
      /\ s.at \in 0..LastSlot /\ s.at \in 0..(s.size - 1)
  BY TableFacts
<1>2. Matches(s) /\ s.bad = FALSE /\ NoDup(s.q)
  BY DEF Swept
<1>3. fd \in Fds /\ s.idx[fd] = s.at
  BY <1>1, <1>2 DEF Matches
<1> DEFINE ev == s.set[s.at].events \ Triggers(fd, revents)
           slot == [fd |-> fd, events |-> ev]
           st == [s.set EXCEPT ![s.at] = slot]
           q == s.q \o Fire(fd, revents[fd])
<1>4. slot \in Slots /\ [s.set[s.at] EXCEPT !.events = ev] = slot
  <2>1. PICK x \in Slots : x = s.set[s.at]
    BY <1>1
  <2>2. x.fd = fd /\ x = [fd |-> x.fd, events |-> x.events] /\ ev \in SUBSET Dirs
    BY <1>1, <2>1 DEF Slots
  <2> HIDE DEF ev
  <2>3. slot \in Slots
    BY <1>3, <2>2 DEF Slots
  <2>4. [x EXCEPT !.events = ev] = [fd |-> x.fd, events |-> ev]
    BY <2>1 DEF Slots
  <2> QED BY <2>1, <2>2, <2>3, <2>4
<1>5. t = [s EXCEPT !.set = st, !.q = q]
  BY <1>4 DEF Emptied
<1> HIDE DEF ev
<1>6. st \in [0..LastSlot -> Slots] /\ st[s.at] = slot
        /\ \A k \in 0..LastSlot : k # s.at => st[k] = s.set[k]
  BY <1>1, <1>4
<1> HIDE DEF st, slot
<1>7. /\ Fire(fd, revents[fd]) \in Seq(Crs) /\ NoDup(Fire(fd, revents[fd]))
      /\ \A x : x \in Range(Fire(fd, revents[fd])) <=>
           \E d \in Triggers(fd, revents) : x \in Range(wq[<<d, fd>>])
  BY <1>3, FireFacts
<1>8. Range(s.q) \cap Range(Fire(fd, revents[fd])) = {}
  <2> SUFFICES ASSUME NEW x, x \in Range(s.q), x \in Range(Fire(fd, revents[fd])) PROVE FALSE
    OBVIOUS
  <2>1. PICK d \in Triggers(fd, revents) : x \in Range(wq[<<d, fd>>])
    BY <1>7
  <2>2. PICK g \in Fds : Seen(s, g) /\ \E b \in Triggers(g, revents) : x \in Range(wq[<<b, g>>])
    BY DEF Swept
  <2>3. PICK b \in Triggers(g, revents) : x \in Range(wq[<<b, g>>])
    BY <2>2
  <2>4. g # fd
    BY <1>1, <1>3, <2>2 DEF Seen
  <2>5. /\ <<d, fd>> \in Endpoints /\ <<b, g>> \in Endpoints /\ <<d, fd>> # <<b, g>>
    BY <1>3, <2>4, EndpointFacts DEF Triggers, Waits
  <2> QED BY <2>1, <2>3, <2>5 DEF FdLists
<1>9. q \in Seq(Crs) /\ Range(q) = Range(s.q) \cup Range(Fire(fd, revents[fd])) /\ NoDup(q)
  BY <1>1, <1>2, <1>7, <1>8, RangeConcat
<1> HIDE DEF q
<1>10. /\ t.size = s.size /\ t.idx = s.idx /\ t.at = s.at /\ t.bad = FALSE /\ t.set = st /\ t.q = q
       /\ t \in Tables
  <2>1. s = [set |-> s.set, size |-> s.size, idx |-> s.idx, at |-> s.at, q |-> s.q, bad |-> s.bad]
    BY DEF Tables
  <2>2. t = [set |-> st, size |-> s.size, idx |-> s.idx, at |-> s.at, q |-> q, bad |-> s.bad]
    BY <1>5, <2>1
  <2> QED BY <1>2, <1>6, <1>9, <2>2 DEF Tables
<1>11. t.set[s.at].events = ev /\ t.set[s.at].fd = fd
  BY <1>6, <1>10 DEF slot
<1>12. ASSUME NEW g \in Fds \ {fd}, s.idx[g] # -1 PROVE t.set[s.idx[g]] = s.set[s.idx[g]]
  <2>1. s.idx[g] \in 0..(s.size - 1) /\ s.set[s.idx[g]].fd = g
    BY <1>2, <1>12 DEF Matches
  <2>2. s.idx[g] # s.at /\ s.idx[g] \in 0..LastSlot
    BY <1>1, <1>12, <2>1
  <2> QED BY <1>6, <1>10, <2>2
<1>13. Matches(t)
  <2>1. \A k \in 0..(s.size - 1) : t.set[k].fd = s.set[k].fd
    <3>1. \A k \in 0..(s.size - 1) : k \in 0..LastSlot
      BY <1>1
    <3> QED BY <1>6, <1>10, <1>11, <3>1
  <2> QED BY <1>2, <1>10, <2>1 DEF Matches
<1> QED BY <1>3, <1>7, <1>9, <1>10, <1>11, <1>12, <1>13 DEF ev, Turn

\* A round of the loop keeps its invariant, and is one of as many as are left.
LEMMA VisitSwept ==
  ASSUME IInv, FdLists, Alive, NEW revents, NEW s \in Tables, Swept(s, revents), s.at < s.size,
         NEW u, u = Visit(s, revents)
  PROVE  u \in Tables /\ Swept(u, revents) /\ u.size - u.at = s.size - s.at - 1
<1> DEFINE fd == s.set[s.at].fd
           t == Emptied(s, fd, revents)
           fired == Triggers(fd, revents)
<1>1. /\ fd \in Fds /\ s.idx[fd] = s.at
      /\ t \in Tables /\ Matches(t)
      /\ t.size = s.size /\ t.idx = s.idx /\ t.at = s.at /\ t.bad = FALSE
      /\ t.set[s.at].events = s.set[s.at].events \ fired
      /\ \A g \in Fds \ {fd} : s.idx[g] # -1 => t.set[s.idx[g]] = s.set[s.idx[g]]
      /\ NoDup(t.q)
      /\ \A x : x \in Range(t.q) <=>
           x \in Range(s.q) \/ \E d \in fired : x \in Range(wq[<<d, fd>>])
  <2>1. fd = s.set[s.at].fd /\ t = Emptied(s, fd, revents) /\ fired = Triggers(fd, revents)
    OBVIOUS
  <2> HIDE DEF t, fd, fired
  <2>2. Turn(s, fd, t, revents)
    BY <2>1, EmptiedFacts
  <2> QED BY <2>1, <2>2 DEF Turn
<1>2. u = IF s.set[s.at].events \ fired = {}
          THEN [Removed(t, fd) EXCEPT !.bad = @ \/ Waits(fd) # fired]
          ELSE [t EXCEPT !.at = @ + 1]
  BY VisitDef
<1> HIDE DEF t, fd, fired
<1>3. /\ s.size \in Nat /\ s.at \in Nat /\ s.idx \in [Fds -> (-1)..LastSlot] /\ LastSlot \in Int
      /\ s.size <= LastSlot + 1 /\ LastSlot + 1 = Cardinality(Fds)
      /\ \A g \in Fds : s.idx[g] \in Int /\ s.idx[g] >= -1
  BY TableFacts
<1>4. \A g \in Fds : s.idx[g] = s.at => g = fd
  BY <1>1, <1>3 DEF Swept, Matches
<1>5. \A g \in Fds : Seen(s, g) <=> s.idx[g] < s.at
  BY DEF Seen
<1>6. Waits(fd) \subseteq s.set[s.at].events /\ fired \subseteq Waits(fd)
        /\ Triggers(fd, revents) = fired
  <2>1. ~Seen(s, fd)
    BY <1>1, <1>3 DEF Seen
  <2> QED BY <1>1, <2>1 DEF Swept, fired, Triggers
<1>7. /\ \A g \in Fds : s.idx[g] # -1 => idx[g] # -1
      /\ \A g \in Fds : Waits(g) \ Triggers(g, revents) # {} =>
           s.idx[g] # -1 /\ Waits(g) \ Triggers(g, revents) \subseteq s.set[s.idx[g]].events
      /\ \A g \in Fds : ~Seen(s, g) => Waits(g) \subseteq s.set[s.idx[g]].events
      /\ \A x : x \in Range(s.q) <=>
           \E g \in Fds : Seen(s, g) /\ \E d \in Triggers(g, revents) : x \in Range(wq[<<d, g>>])
  BY DEF Swept
\* It suffices that the descriptor counts as seen now and the others as before.
<1>8. ASSUME NEW v \in Tables, Matches(v), v.at <= v.size, v.bad = FALSE, v.q = t.q,
             \A g \in Fds : Seen(v, g) <=> g = fd \/ Seen(s, g),
             \A g \in Fds \ {fd} : v.idx[g] = -1 <=> s.idx[g] = -1,
             \A g \in Fds \ {fd} : s.idx[g] # -1 => v.set[v.idx[g]] = s.set[s.idx[g]],
             v.idx[fd] # -1 => v.set[v.idx[fd]].events = s.set[s.at].events \ fired,
             v.idx[fd] = -1 => s.set[s.at].events \ fired = {}
      PROVE  Swept(v, revents)
  <2>1. \A g \in Fds : v.idx[g] # -1 => idx[g] # -1
    <3>1. idx[fd] # -1
      BY <1>1, <1>3, <1>7
    <3> QED BY <1>7, <1>8, <3>1
  <2>2. ASSUME NEW g \in Fds, Waits(g) \ Triggers(g, revents) # {}
        PROVE  v.idx[g] # -1 /\ Waits(g) \ Triggers(g, revents) \subseteq v.set[v.idx[g]].events
    <3>1. CASE g = fd
      BY <1>6, <1>8, <2>2, <3>1
    <3>2. CASE g # fd
      BY <1>7, <1>8, <2>2, <3>2
    <3> QED BY <3>1, <3>2
  <2>3. ASSUME NEW g \in Fds, ~Seen(v, g) PROVE Waits(g) \subseteq v.set[v.idx[g]].events
    <3>1. g # fd /\ ~Seen(s, g)
      BY <1>8, <2>3
    <3>2. s.idx[g] # -1
      BY <1>3, <1>5, <3>1
    <3> QED BY <1>7, <1>8, <3>1, <3>2
  <2>4. \A x : x \in Range(v.q) <=>
          \E g \in Fds : Seen(v, g) /\ \E d \in Triggers(g, revents) : x \in Range(wq[<<d, g>>])
    BY <1>1, <1>6, <1>7, <1>8
  <2> QED BY <1>1, <1>8, <2>1, <2>2, <2>3, <2>4 DEF Swept
<1>9. CASE s.set[s.at].events \ fired = {}
  <2> DEFINE v == Removed(t, fd)
  <2>1. Waits(fd) = fired
    BY <1>6, <1>9
  <2>2. /\ v \in Tables /\ Matches(v)
        /\ v.size = s.size - 1 /\ v.at = s.at /\ v.q = t.q /\ v.bad = FALSE
        /\ v.idx[fd] = -1
        /\ \A g \in Fds \ {fd} :
             IF s.idx[g] = -1 THEN v.idx[g] = -1
             ELSE /\ v.idx[g] # -1 /\ v.set[v.idx[g]] = t.set[s.idx[g]]
                  /\ IF s.idx[g] = s.size - 1 THEN v.idx[g] = s.at
                     ELSE v.idx[g] = s.idx[g]
    <3>1. t.idx[fd] # -1
      BY <1>1, <1>3
    <3> QED BY <1>1, <3>1, RemovedFacts
  <2>3. u = v
    <3>1. (FALSE \/ Waits(fd) # fired) = FALSE
      BY <2>1
    <3>2. u = [v EXCEPT !.bad = FALSE]
      BY <1>2, <1>9, <2>2, <3>1
    <3> HIDE DEF v
    <3> QED BY <2>2, <3>2 DEF Tables
  <2> HIDE DEF v
  <2>4. \A g \in Fds : Seen(v, g) <=> g = fd \/ Seen(s, g)
    <3>1. Seen(v, fd)
      BY <1>3, <2>2 DEF Seen
    <3>2. ASSUME NEW g \in Fds, g # fd PROVE Seen(v, g) <=> Seen(s, g)
      <4>1. s.idx[g] # s.at
        BY <1>4, <3>2
      <4>2. v.idx[g] = s.idx[g] \/ (v.idx[g] = s.at /\ s.idx[g] = s.size - 1)
        BY <2>2, <3>2
      <4> QED BY <1>3, <2>2, <4>1, <4>2 DEF Seen
    <3> QED BY <3>1, <3>2
  <2>5. \A g \in Fds \ {fd} : s.idx[g] # -1 => v.set[v.idx[g]] = s.set[s.idx[g]]
    BY <1>1, <2>2
  <2>6. v.at <= v.size
    BY <1>3, <2>2
  <2>7. Swept(v, revents)
    BY <1>8, <1>9, <2>2, <2>4, <2>5, <2>6
  <2> QED BY <1>3, <2>2, <2>3, <2>7
<1>10. CASE s.set[s.at].events \ fired # {}
  <2>1. u = [t EXCEPT !.at = @ + 1]
    BY <1>2, <1>10
  <2>2. /\ u \in Tables /\ u.set = t.set /\ u.size = s.size /\ u.idx = s.idx
        /\ u.at = s.at + 1 /\ u.q = t.q /\ u.bad = FALSE
    <3>1. s.at + 1 \in 0..Cardinality(Fds)
      BY <1>3
    <3>2. u = [set |-> t.set, size |-> t.size, idx |-> t.idx, at |-> t.at + 1, q |-> t.q,
               bad |-> t.bad]
      BY <1>1, <2>1 DEF Tables
    <3>3. u \in Tables
      BY <1>1, <3>1, <3>2 DEF Tables
    <3> QED BY <1>1, <3>2, <3>3
  <2>3. Matches(u)
    BY <1>1, <2>2 DEF Matches
  <2>4. \A g \in Fds : Seen(u, g) <=> g = fd \/ Seen(s, g)
    BY <1>1, <1>3, <1>4, <2>2 DEF Seen
  <2>5. \A g \in Fds \ {fd} : s.idx[g] # -1 => u.set[u.idx[g]] = s.set[s.idx[g]]
    BY <1>1, <2>2
  <2>6. u.at <= u.size /\ u.idx[fd] # -1 /\ u.set[u.idx[fd]].events = s.set[s.at].events \ fired
    BY <1>1, <1>3, <2>2
  <2>7. Swept(u, revents)
    BY <1>8, <2>2, <2>3, <2>4, <2>5, <2>6
  <2> QED BY <1>3, <2>2, <2>7
<1> QED BY <1>9, <1>10

\* The whole loop.
LEMMA SweepFacts ==
  ASSUME IInv, FdLists, Alive, NEW revents, Array \in Tables, Swept(Array, revents),
         NEW s, s = Sweep(revents)
  PROVE  s \in Tables /\ Swept(s, revents) /\ s.at = s.size
<1> DEFINE X == {t \in Tables : Swept(t, revents)}
           g == [t \in X |-> IF t.at < t.size THEN Visit(t, revents) ELSE t]
           Rounds(h) == [n \in 0..size |-> IF n = 0 THEN Array ELSE Visit(h[n - 1], revents)]
           after == CHOOSE h : h = Rounds(h)
<1>1. size \in Nat /\ Array.size = size /\ Array.at = 0
  BY TableFacts DEF Array
<1>2. Array \in X /\ g \in [X -> X]
  <2>1. ASSUME NEW t \in X PROVE (IF t.at < t.size THEN Visit(t, revents) ELSE t) \in X
    BY VisitSwept
  <2> QED BY <2>1
<1>3. \A t \in X : g[t] = IF t.at < t.size THEN Visit(t, revents) ELSE t
  OBVIOUS
<1>4. \A t \in X : t \in Tables /\ Swept(t, revents) /\ t.at \in Nat /\ t.size \in Nat
  BY TableFacts
<1>5. \A t \in X : t.at < t.size => g[t].size - g[t].at = t.size - t.at - 1
  BY <1>3, VisitSwept
<1> HIDE DEF g, X
<1>6. PICK f \in [0..size -> X] : f[0] = Array /\ \A n \in 1..size : f[n] = g[f[n - 1]]
  <2>1. PICK f : Iterates(f, size, X, Array, g)
    BY <1>1, <1>2, Iteration
  <2> QED BY <2>1 DEF Iterates
<1>7. \A n \in 0..size : f[n].size - f[n].at = size - n
  <2> DEFINE T == {n \in Nat : n <= size => f[n].size - f[n].at = size - n}
  <2>1. 0 \in T
    BY <1>1, <1>6
  <2>2. ASSUME NEW n \in Nat, n \in T PROVE n + 1 \in T
    <3>1. CASE n + 1 <= size
      <4>1. n \in 0..size /\ n + 1 \in 1..size /\ (n + 1) - 1 = n
        BY <1>1, <3>1
      <4>2. f[n] \in X /\ f[n].size - f[n].at = size - n /\ f[n + 1] = g[f[n]]
        BY <1>1, <1>6, <2>2, <3>1, <4>1
      <4>3. f[n].at \in Nat /\ f[n].size \in Nat /\ f[n].at < f[n].size
        BY <1>1, <1>4, <3>1, <4>2
      <4>4. f[n + 1].size - f[n + 1].at = f[n].size - f[n].at - 1
        BY <1>5, <4>2, <4>3
      <4> QED BY <1>1, <4>2, <4>3, <4>4
    <3> QED BY <3>1
  <2> HIDE DEF T
  <2>3. Nat \subseteq T
    BY <2>1, <2>2, SetInduction
  <2> QED BY <1>1, <2>3 DEF T
<1>8. \A n \in 1..size : n - 1 \in 0..size /\ f[n] = Visit(f[n - 1], revents)
  <2> SUFFICES ASSUME NEW n \in 1..size PROVE n - 1 \in 0..size /\ f[n] = Visit(f[n - 1], revents)
    OBVIOUS
  <2>1. n - 1 \in 0..size /\ n - 1 < size
    BY <1>1
  <2>2. f[n - 1] \in X /\ f[n - 1].size - f[n - 1].at = size - (n - 1)
    BY <1>6, <1>7, <2>1
  <2>3. f[n - 1].at < f[n - 1].size
    BY <1>1, <1>4, <2>1, <2>2
  <2> QED BY <1>3, <1>6, <2>1, <2>2, <2>3
<1>9. f = Rounds(f)
  <2>1. \A n \in 0..size : f[n] = Rounds(f)[n]
    <3>1. \A n \in 0..size : n = 0 \/ n \in 1..size
      BY <1>1
    <3> QED BY <1>6, <1>8, <3>1
  <2> QED BY <1>6, <2>1
<1>10. after = Rounds(after)
  BY <1>9
<1>11. s = after[size]
  BY DEF Sweep
<1> HIDE DEF after
<1>12. \A n \in 0..size : after[n] = IF n = 0 THEN Array ELSE Visit(after[n - 1], revents)
  BY <1>10
<1>13. after[size] = f[size]
  <2> DEFINE T == {n \in Nat : n <= size => after[n] = f[n]}
  <2>1. 0 \in T
    BY <1>1, <1>6, <1>12
  <2>2. ASSUME NEW n \in Nat, n \in T PROVE n + 1 \in T
    <3>1. CASE n + 1 <= size
      <4>1. n + 1 \in 1..size /\ n + 1 \in 0..size /\ (n + 1) - 1 = n /\ n + 1 # 0 /\ n <= size
        BY <1>1, <3>1
      <4>2. after[n] = f[n]
        BY <2>2, <4>1
      <4>3. after[n + 1] = Visit(after[n], revents)
        BY <1>12, <4>1
      <4>4. f[n + 1] = Visit(f[n], revents)
        BY <1>8, <4>1
      <4>5. after[n + 1] = f[n + 1]
        BY <4>2, <4>3, <4>4, Zenon
      <4> QED BY <4>5
    <3> QED BY <3>1
  <2> HIDE DEF T
  <2>3. Nat \subseteq T
    BY <2>1, <2>2, SetInduction
  <2> QED BY <1>1, <2>3 DEF T
<1>14. s \in X /\ s.size - s.at = 0
  <2>1. size \in 0..size /\ size - size = 0
    BY <1>1
  <2> QED BY <1>6, <1>7, <1>11, <1>13, <2>1
<1>15. s.at \in Nat /\ s.size \in Nat /\ s \in Tables /\ Swept(s, revents)
  BY <1>4, <1>14
<1> QED BY <1>14, <1>15

-----------------------------------------------------------------------------
(***************************************************************************)
(* The steps of the poll back end.                                         *)
(***************************************************************************)
LEMMA DeadPollInv ==
  ASSUME IInv', ~Alive' PROVE PollInv'
BY DEF PollInv, FdLists, FdNotForgotten, ArrayTypes, ArraySound

\* ArraySound in the terms of the loop.
LEMMA ArrayFacts ==
  ASSUME Alive, ArrayTypes, ArraySound
  PROVE  /\ Array \in Tables /\ Matches(Array)
         /\ Array.set = pollset /\ Array.size = size /\ Array.idx = idx
         /\ Array.at = 0 /\ Array.q = <<>> /\ Array.bad = FALSE
         /\ \A fd \in Fds : idx[fd] # -1 => fd \in cached
         /\ \A fd \in Fds : Waits(fd) # {} =>
              idx[fd] # -1 /\ Waits(fd) \subseteq pollset[idx[fd]].events
<1>1. /\ Array.set = pollset /\ Array.size = size /\ Array.idx = idx
      /\ Array.at = 0 /\ Array.q = <<>> /\ Array.bad = FALSE
  BY DEF Array
<1> QED BY <1>1 DEF ArrayTypes, ArraySound, Matches

\* Clauses are canceled in the slots of their descriptors only.
LEMMA CanceledFacts ==
  ASSUME NEW s \in Tables, Matches(s), NEW p, p = Canceled(s.set, s.idx)
  PROVE  /\ p \in [0..LastSlot -> Slots]
         /\ \A i \in 0..LastSlot : p[i].fd = s.set[i].fd
         /\ \A fd \in Fds : s.idx[fd] # -1 =>
              s.set[s.idx[fd]].events \cap Waits(fd)' \subseteq p[s.idx[fd]].events
<1> DEFINE Keeps(i, d) == \A g \in Fds :
             s.idx[g] = i => ~(d \in Waits(g) /\ wq'[<<d, g>>] = <<>>)
           Ev(i) == {d \in s.set[i].events : Keeps(i, d)}
<1>1. /\ s.set \in [0..LastSlot -> Slots] /\ LastSlot \in Int /\ s.size \in Nat
      /\ \A i \in 0..LastSlot : s.set[i].fd \in Fds /\ s.set[i].events \in SUBSET Dirs
      /\ \A i \in 0..(s.size - 1) : i \in 0..LastSlot
  BY TableFacts
<1>2. p = [i \in 0..LastSlot |-> [s.set[i] EXCEPT !.events = Ev(i)]]
  BY DEF Canceled
<1>3. \A i \in 0..LastSlot : Ev(i) \in SUBSET Dirs
  BY <1>1
<1>4. \A i \in 0..LastSlot : \A d : d \in Ev(i) <=> d \in s.set[i].events /\ Keeps(i, d)
  OBVIOUS
<1> HIDE DEF Ev
<1>5. ASSUME NEW i \in 0..LastSlot
      PROVE  p[i] \in Slots /\ p[i].fd = s.set[i].fd /\ p[i].events = Ev(i)
  <2>1. PICK x \in Slots : x = s.set[i]
    BY <1>1
  <2>2. p[i] = [x EXCEPT !.events = Ev(i)]
    BY <1>2, <2>1
  <2> QED BY <1>3, <2>1, <2>2 DEF Slots
<1>6. p \in [0..LastSlot -> Slots]
  <2>1. p = [i \in 0..LastSlot |-> p[i]]
    BY <1>2
  <2> QED BY <1>5, <2>1
<1>7. ASSUME NEW fd \in Fds, s.idx[fd] # -1,
             NEW d \in s.set[s.idx[fd]].events, d \in Waits(fd)'
      PROVE  d \in p[s.idx[fd]].events
  <2>1. s.idx[fd] \in 0..(s.size - 1) /\ s.idx[fd] \in 0..LastSlot /\ s.set[s.idx[fd]].fd = fd
    BY <1>1, <1>7 DEF Matches
  <2>2. \A g \in Fds : s.idx[g] = s.idx[fd] => g = fd
    BY <1>7, <2>1 DEF Matches
  <2>3. wq'[<<d, fd>>] # <<>>
    BY <1>7 DEF Waits
  <2>4. Keeps(s.idx[fd], d)
    BY <2>2, <2>3
  <2> QED BY <1>4, <1>5, <1>7, <2>1, <2>4
<1> QED BY <1>5, <1>6, <1>7

\* A step that leaves what is still waited for in the array, and cancels clauses.
LEMMA ArrayKept ==
  ASSUME NEW s \in Tables, Matches(s),
         \A fd \in Fds : s.idx[fd] # -1 => fd \in cached',
         \A fd \in Fds : Waits(fd)' # {} =>
           s.idx[fd] # -1 /\ Waits(fd)' \subseteq s.set[s.idx[fd]].events,
         size' = s.size, idx' = s.idx, pollset' = Canceled(s.set, s.idx)
  PROVE  ArrayTypes' /\ ArraySound'
<1>1. /\ pollset' \in [0..LastSlot -> Slots]
      /\ \A i \in 0..LastSlot : pollset'[i].fd = s.set[i].fd
      /\ \A fd \in Fds : s.idx[fd] # -1 =>
           s.set[s.idx[fd]].events \cap Waits(fd)' \subseteq pollset'[s.idx[fd]].events
  BY CanceledFacts
<1>2. /\ s.size \in 0..Cardinality(Fds) /\ s.idx \in [Fds -> (-1)..LastSlot]
      /\ \A i \in 0..(s.size - 1) : i \in 0..LastSlot
      /\ 0 \in 0..Cardinality(Fds) /\ <<>> \in Seq(Crs) /\ FALSE \in BOOLEAN
  BY TableFacts, FdsFinite DEF Tables
<1>3. Array' = [set |-> pollset', size |-> size', idx |-> idx', at |-> 0, q |-> <<>>, bad |-> FALSE]
  BY DEF Array
<1>4. Array' \in Tables
  BY <1>1, <1>2, <1>3 DEF Tables
<1>5. \A i \in 0..(size' - 1) : idx'[pollset'[i].fd] = i
  BY <1>1, <1>2 DEF Matches
<1>6. \A fd \in Fds : idx'[fd] # -1 =>
        idx'[fd] \in 0..(size' - 1) /\ pollset'[idx'[fd]].fd = fd /\ fd \in cached'
  BY <1>1, <1>2 DEF Matches
<1>7. \A fd \in Fds : Waits(fd)' # {} =>
        idx'[fd] # -1 /\ Waits(fd)' \subseteq pollset'[idx'[fd]].events
  BY <1>1
<1> QED BY <1>4, <1>5, <1>6, <1>7 DEF ArrayTypes, ArraySound

\* When lists only shrink, less is waited for.
LEMMA WaitsShrink ==
  ASSUME IInv, IInv', FdLists, Alive, Shrinking, NEW fd \in Fds
  PROVE  Waits(fd)' \subseteq Waits(fd)
<1>1. ASSUME NEW d \in Dirs, wq[<<d, fd>>] = <<>> PROVE wq'[<<d, fd>>] = <<>>
  <2>1. <<d, fd>> \in Endpoints
    BY EndpointFacts
  <2> QED BY <1>1, <2>1, ShrinkLists
<1> QED BY <1>1 DEF Waits

\* Coroutines, bundles and the clock.
LEMMA ElsewherePoll ==
  ASSUME PollInv, Elsewhere, pollset' = Canceled(pollset, idx), UNCHANGED <<fdVars, size, idx>>
  PROVE  PollInv'
<1>1. IInv' /\ (Alive /\ Alive' => Shrinking)
  BY ElsewhereShrinks DEF PollInv
<1>2. CASE ~Alive'
  BY <1>1, <1>2, DeadPollInv
<1>3. CASE Alive'
  <2>1. Alive
    BY <1>3 DEF Elsewhere, RunReady, Tick, Crashed, schedVars, UserStep, Bundle, Go,
       BundleGo, Yield, Msleep, BundleWait, BundleWaitReturn, Hclose, HcloseResume,
       Return, User, Running, Alive
  <2>2. FdLists' /\ FdNotForgotten'
    BY <1>1, <1>3, <2>1, ShrinkFdLists DEF PollInv
  <2>3. \A fd \in Fds : Waits(fd)' \subseteq Waits(fd)
    BY <1>1, <1>3, <2>1, WaitsShrink DEF PollInv
  <2>4. /\ Array \in Tables /\ Matches(Array)
        /\ Array.set = pollset /\ Array.size = size /\ Array.idx = idx
        /\ \A fd \in Fds : idx[fd] # -1 => fd \in cached
        /\ \A fd \in Fds : Waits(fd) # {} =>
             idx[fd] # -1 /\ Waits(fd) \subseteq pollset[idx[fd]].events
    BY <2>1, ArrayFacts DEF PollInv
  <2>5. cached' = cached
    BY DEF fdVars
  <2>6. \A fd \in Fds : Waits(fd)' # {} =>
          idx[fd] # -1 /\ Waits(fd)' \subseteq pollset[idx[fd]].events
    BY <2>3, <2>4
  <2>7. ArrayTypes' /\ ArraySound'
    <3> DEFINE s == Array
    <3>1. /\ s \in Tables /\ Matches(s)
          /\ s.set = pollset /\ s.size = size /\ s.idx = idx
      BY <2>4
    <3> HIDE DEF s
    <3> QED BY <2>4, <2>5, <2>6, <3>1, ArrayKept
  <2> QED BY <1>1, <2>2, <2>7 DEF PollInv
<1> QED BY <1>2, <1>3

\* Descriptors are opened, cleaned and closed.
LEMMA DescriptorPoll ==
  ASSUME PollInv, NEW c \in Crs, NEW fd \in Fds,
         \/ OpenFd(c, fd) /\ UNCHANGED pollVars
         \/ PollClean(c, fd)
         \/ CloseFd(c, fd) /\ UNCHANGED pollVars
  PROVE  PollInv'
<1>1. IInv' /\ FdLists' /\ FdNotForgotten' /\ Alive /\ UNCHANGED vars
  BY DescriptorLists DEF PollInv, PollClean
<1>2. Alive' /\ \A g \in Fds : Waits(g)' = Waits(g)
  BY <1>1, VarsUnchanged DEF PollInv
<1>3. CASE UNCHANGED pollVars /\ UNCHANGED cached
  BY <1>1, <1>2, <1>3 DEF PollInv, ArrayTypes, ArraySound, Array, pollVars
<1>4. CASE PollClean(c, fd)
  <2> DEFINE s == Array
             t == IF idx[fd] >= 0 THEN Removed(s, fd) ELSE s
  <2>1. /\ s \in Tables /\ Matches(s) /\ s.set = pollset /\ s.size = size /\ s.idx = idx
        /\ \A g \in Fds : idx[g] # -1 => g \in cached
        /\ \A g \in Fds : Waits(g) # {} =>
             idx[g] # -1 /\ Waits(g) \subseteq pollset[idx[g]].events
    BY <1>1, ArrayFacts DEF PollInv
  <2>2. /\ cached' = cached \ {fd} /\ Waits(fd) = {}
        /\ pollset' = t.set /\ size' = t.size /\ idx' = t.idx
    BY <1>4 DEF PollClean, Fdclean
  <2> HIDE DEF s
  <2>3. idx[fd] \in Int /\ idx[fd] >= -1
    BY <2>1, TableFacts
  <2>4. CASE idx[fd] >= 0
    <3>1. t = Removed(s, fd) /\ s.idx[fd] # -1
      BY <2>1, <2>3, <2>4
    <3> HIDE DEF t
    <3>2. /\ t \in Tables /\ Matches(t) /\ t.idx[fd] = -1
          /\ \A g \in Fds \ {fd} :
               IF s.idx[g] = -1 THEN t.idx[g] = -1
               ELSE t.idx[g] # -1 /\ t.set[t.idx[g]] = s.set[s.idx[g]]
      BY <2>1, <3>1, RemovedFacts
    <3>3. /\ \A g \in Fds : t.idx[g] # -1 => g \in cached'
          /\ \A g \in Fds : Waits(g) # {} =>
               t.idx[g] # -1 /\ Waits(g) \subseteq t.set[t.idx[g]].events
      BY <2>1, <2>2, <3>2
    <3>4. Array' \in Tables
      <4>1. Array' = [set |-> t.set, size |-> t.size, idx |-> t.idx, at |-> 0, q |-> <<>>,
                      bad |-> FALSE]
        BY <2>2 DEF Array
      <4>2. 0 \in 0..Cardinality(Fds)
        BY FdsFinite
      <4> QED BY <3>2, <4>1, <4>2 DEF Tables
    <3>5. ArraySound'
      BY <1>2, <2>2, <3>2, <3>3 DEF ArraySound, Matches
    <3> QED BY <1>1, <3>4, <3>5 DEF PollInv, ArrayTypes
  <2>5. CASE ~(idx[fd] >= 0)
    <3>1. idx[fd] = -1 /\ pollset' = pollset /\ size' = size /\ idx' = idx
      BY <2>1, <2>2, <2>3, <2>5
    <3>2. \A g \in Fds : idx[g] # -1 => g \in cached'
      BY <2>1, <2>2, <3>1
    <3>3. ArrayTypes' /\ ArraySound'
      BY <1>1, <1>2, <3>1, <3>2 DEF PollInv, ArrayTypes, ArraySound, Array
    <3> QED BY <1>1, <3>3 DEF PollInv
  <2> QED BY <2>4, <2>5
<1>5. CASE OpenFd(c, fd) /\ UNCHANGED pollVars
  BY <1>3, <1>5 DEF OpenFd
<1>6. CASE CloseFd(c, fd) /\ UNCHANGED pollVars
  BY <1>3, <1>6 DEF CloseFd
<1> QED BY <1>4, <1>5, <1>6

LEMMA FdReturnPoll ==
  ASSUME PollInv, NEW c \in Crs, FdReturn(c), UNCHANGED pollVars PROVE PollInv'
<1>1. /\ IInv' /\ FdLists' /\ FdNotForgotten' /\ Alive
      /\ UNCHANGED <<wq, abort, opened, cached>>
  BY FdReturnLists DEF PollInv
<1>2. ArrayTypes' /\ ArraySound'
  BY <1>1 DEF PollInv, ArrayTypes, ArraySound, Array, Waits, pollVars, Alive
<1> QED BY <1>1, <1>2 DEF PollInv

\* fdin() and fdout() take a slot if the descriptor has none.
LEMMA PollWaitPoll ==
  ASSUME PollInv, NEW c \in Crs, NEW d \in Dirs, NEW fd \in Fds, NEW delay \in FdDelays,
         PollWait(c, d, fd, delay)
  PROVE  PollInv'
<1>1. /\ IInv' /\ FdLists' /\ FdNotForgotten' /\ Alive
      /\ cached' = cached \cup {fd}
      /\ \A g \in Fds \ {fd} : Waits(g)' = Waits(g)
      /\ Waits(fd)' = Waits(fd) \cup {d}
  BY FdWaitLists DEF PollInv, PollWait
<1>2. /\ Array \in Tables /\ Matches(Array)
      /\ Array.set = pollset /\ Array.size = size /\ Array.idx = idx
      /\ \A g \in Fds : idx[g] # -1 => g \in cached
      /\ \A g \in Fds : Waits(g) # {} =>
           idx[g] # -1 /\ Waits(g) \subseteq pollset[idx[g]].events
  BY <1>1, ArrayFacts DEF PollInv
<1>3. /\ pollset \in [0..LastSlot -> Slots] /\ size \in Nat /\ size <= LastSlot + 1
      /\ idx \in [Fds -> (-1)..LastSlot] /\ LastSlot \in Int /\ LastSlot + 1 = Cardinality(Fds)
      /\ \A i \in 0..LastSlot : pollset[i].fd \in Fds /\ pollset[i].events \in SUBSET Dirs
      /\ \A i \in 0..(size - 1) : i \in 0..LastSlot
  <2> DEFINE s == Array
  <2>1. s \in Tables /\ s.set = pollset /\ s.size = size /\ s.idx = idx
    BY <1>2
  <2> HIDE DEF s
  <2> QED BY <2>1, TableFacts
<1>4. /\ \A i \in 0..(size - 1) : idx[pollset[i].fd] = i
      /\ \A g \in Fds : idx[g] # -1 => idx[g] \in 0..(size - 1) /\ pollset[idx[g]].fd = g
  BY <1>2 DEF Matches
<1>5. idx[fd] = -1 => size <= LastSlot
  <2> DEFINE s == Array
  <2>1. s \in Tables /\ Matches(s) /\ s.size = size /\ s.idx = idx
    BY <1>2
  <2> HIDE DEF s
  <2> QED BY <2>1, RoomLeft
<1> DEFINE i == IF idx[fd] < 0 THEN size ELSE idx[fd]
           slot == [fd |-> fd, events |-> pollset[i].events \cup {d}]
<1>6. /\ pollset' = [pollset EXCEPT ![i] = slot]
      /\ idx' = [idx EXCEPT ![fd] = i]
      /\ size' = IF idx[fd] < 0 THEN size + 1 ELSE size
  BY DEF PollWait
<1>7. /\ i \in 0..LastSlot /\ i \in 0..(size' - 1) /\ size' \in 0..(LastSlot + 1) /\ size <= size'
      /\ \A k \in 0..(size' - 1) : k # i => k \in 0..(size - 1)
      /\ \A g \in Fds \ {fd} : idx[g] # i
      /\ idx[fd] = -1 \/ idx[fd] = i
  <2>1. CASE idx[fd] = -1
    <3>1. i = size /\ size' = size + 1 /\ size <= LastSlot
      BY <1>5, <1>6, <2>1
    <3>2. \A g \in Fds : idx[g] # size
      BY <1>3, <1>4
    <3> QED BY <1>3, <2>1, <3>1, <3>2
  <2>2. CASE idx[fd] # -1
    <3>1. idx[fd] \in 0..(size - 1) /\ i = idx[fd] /\ size' = size
      BY <1>3, <1>4, <1>6, <2>2
    <3> QED BY <1>3, <1>4, <2>2, <3>1
  <2> QED BY <2>1, <2>2
<1>8. slot \in Slots /\ slot.fd = fd /\ slot.events = pollset[i].events \cup {d}
  BY <1>3, <1>7 DEF Slots
<1> HIDE DEF slot, i
<1>9. /\ pollset' \in [0..LastSlot -> Slots] /\ pollset'[i] = slot
      /\ \A k \in 0..LastSlot : k # i => pollset'[k] = pollset[k]
  BY <1>3, <1>6, <1>7, <1>8
<1>10. /\ idx' \in [Fds -> (-1)..LastSlot] /\ idx'[fd] = i
       /\ \A g \in Fds \ {fd} : idx'[g] = idx[g]
  <2>1. i \in (-1)..LastSlot
    BY <1>3, <1>7
  <2> QED BY <1>3, <1>6, <2>1
<1>11. ArrayTypes'
  <2>1. Array' = [set |-> pollset', size |-> size', idx |-> idx', at |-> 0, q |-> <<>>, bad |-> FALSE]
    BY DEF Array
  <2>2. 0 \in 0..Cardinality(Fds) /\ size' \in 0..Cardinality(Fds)
    BY <1>3, <1>7, FdsFinite
  <2> QED BY <1>9, <1>10, <2>1, <2>2 DEF Tables, ArrayTypes
<1>12. ASSUME NEW k \in 0..(size' - 1) PROVE idx'[pollset'[k].fd] = k
  <2>1. CASE k = i
    BY <1>8, <1>9, <1>10, <2>1
  <2>2. CASE k # i
    <3>1. k \in 0..(size - 1) /\ k \in 0..LastSlot
      BY <1>3, <1>7, <2>2
    <3>2. pollset'[k] = pollset[k] /\ idx[pollset[k].fd] = k /\ pollset[k].fd \in Fds
      BY <1>3, <1>4, <1>9, <2>2, <3>1
    <3>3. pollset[k].fd # fd
      BY <1>3, <1>7, <2>2, <3>1, <3>2
    <3> QED BY <1>10, <3>2, <3>3
  <2> QED BY <2>1, <2>2
<1>13. ASSUME NEW g \in Fds, idx'[g] # -1
       PROVE  idx'[g] \in 0..(size' - 1) /\ pollset'[idx'[g]].fd = g /\ g \in cached'
  <2>1. CASE g = fd
    BY <1>1, <1>7, <1>8, <1>9, <1>10, <2>1
  <2>2. CASE g # fd
    <3>1. /\ idx'[g] = idx[g] /\ idx[g] # i /\ idx[g] \in 0..(size - 1)
          /\ pollset[idx[g]].fd = g /\ g \in cached
      BY <1>2, <1>4, <1>7, <1>10, <1>13, <2>2
    <3>2. idx[g] \in 0..LastSlot /\ idx[g] \in 0..(size' - 1)
      BY <1>3, <1>7, <3>1
    <3> QED BY <1>1, <1>9, <3>1, <3>2
  <2> QED BY <2>1, <2>2
<1>14. ASSUME NEW g \in Fds, Waits(g)' # {}
       PROVE  idx'[g] # -1 /\ Waits(g)' \subseteq pollset'[idx'[g]].events
  <2>1. CASE g = fd
    <3>1. Waits(fd) \subseteq pollset[i].events
      BY <1>2, <1>7
    <3>2. idx'[fd] = i /\ i # -1 /\ pollset'[i].events = pollset[i].events \cup {d}
      BY <1>3, <1>7, <1>8, <1>9, <1>10
    <3> QED BY <1>1, <2>1, <3>1, <3>2
  <2>2. CASE g # fd
    <3>1. Waits(g)' = Waits(g) /\ idx[g] # -1 /\ Waits(g) \subseteq pollset[idx[g]].events
      BY <1>1, <1>2, <1>14, <2>2
    <3>2. idx[g] \in 0..LastSlot /\ idx[g] # i /\ idx'[g] = idx[g]
      BY <1>3, <1>4, <1>7, <1>10, <2>2, <3>1
    <3> QED BY <1>9, <3>1, <3>2
  <2> QED BY <2>1, <2>2
<1>15. ArraySound'
  BY <1>12, <1>13, <1>14 DEF ArraySound
<1> QED BY <1>1, <1>11, <1>15 DEF PollInv

\* dill_wait after any poll. One that reports an event without having triggered
\* anybody ends the process if nobody else can run.
LEMMA PollRoundEnds ==
  ASSUME IInv, FdLists, Alive, r = NoCr, UNCHANGED crVars,
         NEW q \in Seq(Crs), NoDup(q),
         \A x \in Range(q) : call[x] = InExt /\ Suspended(x),
         NEW fired, PollRound(fired, q)
  PROVE  /\ IInv'
         /\ Alive' => Shrinking /\ \A e \in Endpoints : Range(wq'[e]) \cap Range(q) = {}
<1> DEFINE late == Without(Due, Range(q))
<1>1. CASE q # <<>>
  BY <1>1, PollRoundFacts
<1>2. CASE ready # <<>> \/ late # <<>>
  <2>1. PollRound(FALSE, q)
    BY <1>2 DEF PollRound
  <2> QED BY <2>1, PollRoundFacts
<1>3. CASE q = <<>> /\ ready = <<>> /\ late = <<>>
  <2>1. ready \o (q \o late) = <<>>
    BY <1>3
  <2>2. abort' = "pollset" /\ UNCHANGED <<r, ret, ready, res, timers, tm, wq, nb1, now, lastPoll>>
    BY <2>1 DEF PollRound
  <2>3. TypeOK'
    BY <2>2 DEF IInv, TypeOK, crVars
  <2>4. ~Alive'
    BY <2>2 DEF Alive
  <2> QED BY <2>3, <2>4, DeadIInv
<1> QED BY <1>1, <1>2, <1>3

\* The loop begins with nothing seen but the descriptors that are not in the array.
LEMMA BeginSwept ==
  ASSUME PollInv, Alive, NEW revents PROVE Swept(Array, revents)
<1> DEFINE s == Array
<1>1. /\ s \in Tables /\ Matches(s)
      /\ s.set = pollset /\ s.size = size /\ s.idx = idx
      /\ s.at = 0 /\ s.q = <<>> /\ s.bad = FALSE
      /\ \A fd \in Fds : Waits(fd) # {} =>
           idx[fd] # -1 /\ Waits(fd) \subseteq pollset[idx[fd]].events
  BY ArrayFacts DEF PollInv
<1> HIDE DEF s
<1>2. s.size \in Nat /\ \A fd \in Fds : s.idx[fd] \in Int /\ s.idx[fd] >= -1
  BY <1>1, TableFacts
<1>3. NoDup(s.q) /\ Range(s.q) = {}
  <2>1. NoDup(<<>>) /\ Range(<<>>) = {}
    BY DEF NoDup, Range
  <2>2. s.q = <<>>
    BY <1>1
  <2> QED BY <2>1, <2>2, Zenon
<1>4. \A fd \in Fds : Triggers(fd, revents) \subseteq Waits(fd)
  BY DEF Triggers
<1>5. \A fd \in Fds : Seen(s, fd) => Waits(fd) = {}
  BY <1>1, <1>2 DEF Seen
<1>6. \A fd \in Fds : Waits(fd) \subseteq s.set[s.idx[fd]].events
  BY <1>1
<1>7. \A fd \in Fds : Waits(fd) \ Triggers(fd, revents) # {} =>
        /\ s.idx[fd] # -1
        /\ Waits(fd) \ Triggers(fd, revents) \subseteq s.set[s.idx[fd]].events
  BY <1>1, <1>6
<1>8. \A x : x \in Range(s.q) <=>
        \E fd \in Fds : Seen(s, fd) /\ \E d \in Triggers(fd, revents) : x \in Range(wq[<<d, fd>>])
  BY <1>3, <1>4, <1>5
<1>9. s.at <= s.size /\ \A fd \in Fds : s.idx[fd] # -1 => idx[fd] # -1
  BY <1>1, <1>2
<1>10. Swept(s, revents)
  BY <1>1, <1>3, <1>6, <1>7, <1>8, <1>9 DEF Swept
<1> QED BY <1>10 DEF s

\* The poll sweeps out what nobody waits for, keeps what somebody still waits for,
\* and its assertion holds.
LEMMA PollPollPoll ==
  ASSUME PollInv, PollPoll PROVE PollInv'
<1>1. Alive /\ r = NoCr /\ UNCHANGED <<crVars, fdVars>>
  BY DEF PollPoll
<1>2. IInv /\ FdLists /\ FdNotForgotten /\ ArrayTypes /\ ArraySound
  BY DEF PollInv
<1>3. PICK revents : LET s == Sweep(revents) IN ~s.bad =>
         /\ PollRound(\E fd \in Fds : revents[fd] # {}, s.q)
         /\ size' = s.size /\ idx' = s.idx /\ pollset' = Canceled(s.set, s.idx)
  BY DEF PollPoll
<1> DEFINE s == Sweep(revents)
           fired == \E fd \in Fds : revents[fd] # {}
<1>4. s \in Tables /\ Swept(s, revents) /\ s.at = s.size
  <2>1. Array \in Tables /\ Swept(Array, revents)
    BY <1>1, <1>2, BeginSwept DEF ArrayTypes
  <2>2. s = Sweep(revents)
    OBVIOUS
  <2> HIDE DEF s
  <2> QED BY <1>1, <1>2, <2>1, <2>2, SweepFacts
<1>5. s.bad = FALSE
  BY <1>4 DEF Swept
<1>6. PollRound(fired, s.q) /\ size' = s.size /\ idx' = s.idx /\ pollset' = Canceled(s.set, s.idx)
  BY <1>3, <1>5
<1> HIDE DEF s, fired
<1>7. /\ Matches(s) /\ NoDup(s.q) /\ s.q \in Seq(Crs)
      /\ \A fd \in Fds : s.idx[fd] # -1 => idx[fd] # -1
      /\ \A fd \in Fds : Waits(fd) \ Triggers(fd, revents) # {} =>
           s.idx[fd] # -1 /\ Waits(fd) \ Triggers(fd, revents) \subseteq s.set[s.idx[fd]].events
      /\ \A x : x \in Range(s.q) <=>
           \E fd \in Fds : Seen(s, fd) /\ \E d \in Triggers(fd, revents) : x \in Range(wq[<<d, fd>>])
  BY <1>4, TableFacts DEF Swept
<1>8. \A fd \in Fds : Seen(s, fd)
  <2>1. /\ s.size \in Nat
        /\ \A fd \in Fds : s.idx[fd] = -1 \/ s.idx[fd] \in 0..(s.size - 1)
    BY <1>4, <1>7, TableFacts DEF Matches
  <2> QED BY <1>4, <2>1 DEF Seen
<1>9. ASSUME NEW x \in Range(s.q) PROVE call[x] = InExt /\ Suspended(x)
  <2>1. PICK fd \in Fds : \E d \in Triggers(fd, revents) : x \in Range(wq[<<d, fd>>])
    BY <1>7
  <2>2. PICK d \in Triggers(fd, revents) : x \in Range(wq[<<d, fd>>])
    BY <2>1
  <2>3. <<d, fd>> \in Endpoints
    BY EndpointFacts DEF Triggers, Waits
  <2> QED BY <1>1, <1>2, <2>2, <2>3 DEF FdLists
<1>10. /\ IInv'
       /\ Alive' => Shrinking /\ \A e \in Endpoints : Range(wq'[e]) \cap Range(s.q) = {}
  <2> DEFINE q == s.q
  <2>1. /\ q \in Seq(Crs) /\ NoDup(q) /\ PollRound(fired, q)
        /\ \A x \in Range(q) : call[x] = InExt /\ Suspended(x)
    BY <1>6, <1>7, <1>9
  <2> HIDE DEF q
  <2>2. UNCHANGED crVars
    BY <1>1
  <2>3. /\ IInv'
        /\ Alive' => Shrinking /\ \A e \in Endpoints : Range(wq'[e]) \cap Range(q) = {}
    BY <1>1, <1>2, <2>1, <2>2, PollRoundEnds
  <2> QED BY <2>3 DEF q
<1>11. CASE ~Alive'
  BY <1>10, <1>11, DeadPollInv
<1>12. CASE Alive'
  <2>1. FdLists' /\ FdNotForgotten'
    BY <1>1, <1>2, <1>10, <1>12, ShrinkFdLists
  <2>2. ASSUME NEW fd \in Fds PROVE Waits(fd)' \subseteq Waits(fd) \ Triggers(fd, revents)
    <3>1. Waits(fd)' \subseteq Waits(fd)
      BY <1>1, <1>2, <1>10, <1>12, WaitsShrink
    <3>2. ASSUME NEW d \in Triggers(fd, revents) PROVE wq'[<<d, fd>>] = <<>>
      <4> DEFINE e == <<d, fd>>
      <4>1. e \in Endpoints
        BY EndpointFacts DEF Triggers, Waits
      <4>2. Range(wq[e]) \subseteq Range(s.q)
        BY <1>7, <1>8
      <4> HIDE DEF e
      <4>3. Range(wq'[e]) \subseteq Range(wq[e]) /\ wq'[e] \in Seq(Crs)
        BY <1>10, <1>12, <4>1 DEF Shrinking, IInv, TypeOK
      <4>4. Range(wq'[e]) = {}
        BY <1>10, <1>12, <4>1, <4>2, <4>3
      <4>5. wq'[e] = <<>>
        BY <4>3, <4>4, RangeDef
      <4> QED BY <4>5 DEF e
    <3> QED BY <3>1, <3>2 DEF Waits
  <2>3. /\ \A fd \in Fds : s.idx[fd] # -1 => fd \in cached'
        /\ \A fd \in Fds : Waits(fd)' # {} =>
             s.idx[fd] # -1 /\ Waits(fd)' \subseteq s.set[s.idx[fd]].events
    <3>1. \A fd \in Fds : idx[fd] # -1 => fd \in cached'
      BY <1>1, <1>2, ArrayFacts DEF fdVars
    <3> QED BY <1>7, <2>2, <3>1
  <2>4. ArrayTypes' /\ ArraySound'
    BY <1>4, <1>6, <1>7, <2>3, ArrayKept
  <2> QED BY <1>10, <2>1, <2>4 DEF PollInv
<1> QED BY <1>11, <1>12

\* The initial state.
LEMMA InitPollInv == PollInit => PollInv
<1> SUFFICES ASSUME PollInit PROVE PollInv
  OBVIOUS
<1>1. /\ Init /\ opened = {} /\ cached = {} /\ size = 0 /\ idx = [fd \in Fds |-> -1]
      /\ pollset \in [0..LastSlot -> Slots]
  BY DEF PollInit, FdInit
<1>2. IInv
  BY <1>1, InitIInv
<1>3. /\ \A e \in Endpoints : wq[e] = <<>>
      /\ \A x \in Crs : call[x] = Idle
      /\ Idle # InExt /\ Range(<<>>) = {}
  BY <1>1, RangeSmall, FrameTypes DEF Init, SchedInit
<1>4. FdLists /\ FdNotForgotten
  BY <1>1, <1>3 DEF FdLists, FdNotForgotten
<1>5. \A fd \in Fds : Waits(fd) = {}
  BY <1>3, EndpointFacts DEF Waits
<1>6. ArrayTypes
  <2>1. 0 \in 0..Cardinality(Fds) /\ LastSlot \in Int /\ LastSlot >= -1
    BY FdsFinite DEF LastSlot
  <2>2. idx \in [Fds -> (-1)..LastSlot]
    BY <1>1, <2>1
  <2>3. Array = [set |-> pollset, size |-> 0, idx |-> idx, at |-> 0, q |-> <<>>, bad |-> FALSE]
    BY <1>1 DEF Array
  <2> QED BY <1>1, <2>1, <2>2, <2>3 DEF ArrayTypes, Tables
<1>7. ArraySound
  BY <1>1, <1>5 DEF ArraySound
<1> QED BY <1>2, <1>4, <1>6, <1>7 DEF PollInv

\* Every step preserves the invariant.
LEMMA PollNextInv == PollInv /\ [PollNext]_pollAll => PollInv'
<1> SUFFICES ASSUME PollInv, [PollNext]_pollAll PROVE PollInv'
  OBVIOUS
<1>1. CASE PollPoll
  BY <1>1, PollPollPoll
<1>2. CASE Elsewhere /\ pollset' = Canceled(pollset, idx) /\ UNCHANGED <<fdVars, size, idx>>
  BY <1>2, ElsewherePoll
<1>3. ASSUME NEW c \in Crs, PollStep(c) PROVE PollInv'
  BY <1>3, DescriptorPoll, PollWaitPoll, FdReturnPoll DEF PollStep
<1>4. CASE UNCHANGED pollAll
  <2>1. UNCHANGED <<vars, fdVars, pollset, size, idx>> /\ IInv
    BY <1>4 DEF pollAll, pollVars, PollInv
  <2>2. /\ IInv' /\ (Alive' <=> Alive)
        /\ UNCHANGED <<wq, call, live, done, r, ready>>
        /\ \A fd \in Fds : Waits(fd)' = Waits(fd)
        /\ \A x : Suspended(x)' <=> Suspended(x)
    BY <2>1, VarsUnchanged
  <2>3. FdLists' /\ FdNotForgotten'
    BY <2>1, <2>2 DEF PollInv, FdLists, FdNotForgotten, fdVars
  <2>4. ArrayTypes' /\ ArraySound'
    BY <2>1, <2>2 DEF PollInv, ArrayTypes, ArraySound, Array, fdVars
  <2> QED BY <2>2, <2>3, <2>4 DEF PollInv
<1> QED BY <1>1, <1>2, <1>3, <1>4 DEF PollNext

\* Waiting by poll.c.inc is sound for any number of coroutines, bundles and
\* descriptors: however dill_pollset_poll sweeps and swaps the slots of its array
\* while it resumes coroutines, array and indices match, and a descriptor
\* somebody waits for is in the array with these events.
THEOREM PollCorrect == PollSpec => []PollSound
<1>1. PollInv => PollSound
  BY InvFdinfo DEF PollInv, PollSound
<1> QED BY <1>1, InitPollInv, PollNextInv, PTL DEF PollSpec
=============================================================================
