------------------------------ MODULE CrProofs ------------------------------
(***************************************************************************)
(* Proofs about module Cr, for any number of coroutines and bundles, any   *)
(* deadlines and any nesting: the invariant IInv, and from it the safety   *)
(* properties of the ready queue, of structured concurrency and of hclose  *)
(* and bundle_wait.                                                        *)
(***************************************************************************)
EXTENDS Cr, SeqLemmas, FiniteSetTheorems

-----------------------------------------------------------------------------
(***************************************************************************)
(* What the kernel operations of Sched do.                                 *)
(***************************************************************************)

\* The literals that dill_wait hands out are results.
LEMMA ResultTypes ==
  /\ NoResult \in Results
  /\ Result(-1, "ECANCELED") \in Results
  /\ \A i \in Int : Result(i, "0") \in Results /\ Result(i, "ETIMEDOUT") \in Results
BY DEF NoResult, Result, Results, Errors

\* The shapes of a stack frame.
LEMMA FrameTypes ==
  /\ Idle \in Frames /\ InExt \in Frames
  /\ \A b \in Bundles : InWait(b) \in Frames
  /\ \A b \in Bundles, c \in Crs : InClose(b, c) \in Frames
  /\ \A fr \in Frames : /\ fr.op = "wait" => fr.b \in Bundles
                        /\ fr.op = "close" => fr.b \in Bundles /\ fr.cur \in Crs
  /\ Idle.op = "none" /\ InExt.op = "ext"
  /\ \A b \in Bundles : InWait(b).op = "wait" /\ InWait(b).b = b
  /\ \A b \in Bundles, c \in Crs : /\ InClose(b, c).op = "close"
                                   /\ InClose(b, c).b = b /\ InClose(b, c).cur = c
<1>1. Idle \in Frames /\ InExt \in Frames
  BY DEF Frames
<1>2. \A b \in Bundles : InWait(b) \in Frames
  BY DEF Frames
<1>3. \A b \in Bundles, c \in Crs : InClose(b, c) \in Frames
  BY DEF Frames
<1>4. Idle.op = "none" /\ InExt.op = "ext"
  BY DEF Idle, InExt
<1>5. \A b \in Bundles : InWait(b).op = "wait" /\ InWait(b).b = b
  BY DEF InWait
<1>6. \A b \in Bundles, c \in Crs : /\ InClose(b, c).op = "close"
                                    /\ InClose(b, c).b = b /\ InClose(b, c).cur = c
  BY DEF InClose
<1>7. ASSUME NEW fr \in Frames
      PROVE  /\ fr.op = "wait" => fr.b \in Bundles
             /\ fr.op = "close" => fr.b \in Bundles /\ fr.cur \in Crs
  <2>1. \/ fr = Idle \/ fr = InExt
        \/ \E b \in Bundles : fr = InWait(b)
        \/ \E b \in Bundles, c \in Crs : fr = InClose(b, c)
    BY <1>7 DEF Frames
  <2> QED BY <2>1, <1>4, <1>5, <1>6
<1> QED BY <1>1, <1>2, <1>3, <1>4, <1>5, <1>6, <1>7

\* dill_resume of one coroutine.
LEMMA ResumeOne ==
  ASSUME TypeOK, NEW c \in Crs, NEW f \in [Crs -> Results], Resume(<<c>>, f)
  PROVE  /\ ready' \in Seq(Crs)
         /\ Range(ready') = Range(ready) \cup {c}
         /\ NoDup(ready) /\ c \notin Range(ready) => NoDup(ready')
         /\ res' \in [Crs -> Results]
         /\ \A x \in Crs : res'[x] \in {f[x], res[x]}
<1>1. ready \in Seq(Crs) /\ res \in [Crs -> Results]
  BY DEF TypeOK
<1>2. ready' = ready \o <<c>>
  BY DEF Resume
<1>3. res' \in [Crs -> Results]
  BY <1>1 DEF Resume
<1>4. \A x \in Crs : res'[x] \in {f[x], res[x]}
  BY DEF Resume
<1> QED BY <1>1, <1>2, <1>3, <1>4, RangePush

\* The cancel callbacks of the clauses of S.
LEMMA CancelClausesFacts ==
  ASSUME TypeOK, NEW S, CancelClauses(S)
  PROVE  /\ timers' \in Seq(Crs)
         /\ Range(timers') = Range(timers) \ S
         /\ NoDup(timers) => NoDup(timers')
         /\ tm' \in [Crs -> [at : Nat, id : Nat]]
         /\ wq' \in [Endpoints -> Seq(Crs)]
<1>1. /\ timers \in Seq(Crs) /\ tm \in [Crs -> [at : Nat, id : Nat]]
      /\ wq \in [Endpoints -> Seq(Crs)]
  BY DEF TypeOK
<1>2. NoTimer \in [at : Nat, id : Nat]
  BY DEF NoTimer
<1>3. /\ timers' = Without(timers, S)
      /\ tm' = [c \in Crs |-> IF c \in S THEN NoTimer ELSE tm[c]]
      /\ wq' = [e \in Endpoints |-> Without(wq[e], S)]
  BY DEF CancelClauses
<1>4. tm' \in [Crs -> [at : Nat, id : Nat]]
  BY <1>1, <1>2, <1>3
<1>5. \A e \in Endpoints : Without(wq[e], S) \in Seq(Crs)
  BY <1>1, WithoutFacts
<1>6. wq' \in [Endpoints -> Seq(Crs)]
  BY <1>3, <1>5
<1> QED BY <1>1, <1>3, <1>4, <1>6, WithoutFacts

\* dill_docancel either fails its assertion or moves suspended coroutines to
\* the ready queue and takes their timers away.
LEMMA DoCancelFacts ==
  ASSUME TypeOK, NEW q \in Seq(Crs), NEW f \in [Crs -> Results], DoCancel(q, f)
  PROVE  /\ ready' \in Seq(Crs)
         /\ res' \in [Crs -> Results]
         /\ timers' \in Seq(Crs)
         /\ tm' \in [Crs -> [at : Nat, id : Nat]]
         /\ wq' \in [Endpoints -> Seq(Crs)]
         /\ \/ abort' = "docancel"
            \/ /\ abort' = abort
               /\ Range(q) \cap Range(ready) = {}
               /\ Range(ready') = Range(ready) \cup Range(q)
               /\ NoDup(ready) /\ NoDup(q) => NoDup(ready')
               /\ Range(timers') = Range(timers) \ Range(q)
               /\ NoDup(timers) => NoDup(timers')
               /\ \A x \in Crs : res'[x] = IF x \in Range(q) THEN f[x] ELSE res[x]
<1>1. CASE Range(q) \cap Range(ready) # {}
  BY <1>1 DEF DoCancel, TypeOK
<1>2. CASE Range(q) \cap Range(ready) = {}
  <2>1. CancelClauses(Range(q)) /\ Resume(q, f) /\ abort' = abort
    BY <1>2 DEF DoCancel
  <2>2. ready \in Seq(Crs) /\ res \in [Crs -> Results]
    BY DEF TypeOK
  <2>3. ready' = ready \o q
    BY <2>1 DEF Resume
  <2>4. res' \in [Crs -> Results]
    BY <2>1, <2>2 DEF Resume
  <2>5. \A x \in Crs : res'[x] = IF x \in Range(q) THEN f[x] ELSE res[x]
    BY <2>1 DEF Resume
  <2> QED BY <1>2, <2>1, <2>2, <2>3, <2>4, <2>5, CancelClausesFacts, RangeConcat
<1> QED BY <1>1, <1>2

\* The same for a single coroutine.
LEMMA DoCancelOneFacts ==
  ASSUME TypeOK, NEW c \in Crs, NEW i \in Int, NEW e \in Errors,
         DoCancelOne(c, i, e)
  PROVE  /\ ready' \in Seq(Crs)
         /\ res' \in [Crs -> Results]
         /\ timers' \in Seq(Crs)
         /\ tm' \in [Crs -> [at : Nat, id : Nat]]
         /\ wq' \in [Endpoints -> Seq(Crs)]
         /\ \/ abort' = "docancel"
            \/ /\ abort' = abort
               /\ Range(ready') = Range(ready) \cup {c}
               /\ NoDup(ready) => NoDup(ready')
               /\ Range(timers') = Range(timers) \ {c}
               /\ NoDup(timers) => NoDup(timers')
               /\ \A x \in Crs : res'[x] = IF x = c THEN Result(i, e) ELSE res[x]
<1> DEFINE q == <<c>>
           f == [x \in Crs |-> Result(i, e)]
<1>1. q \in Seq(Crs) /\ Range(q) = {c} /\ NoDup(q)
  BY RangeSmall
<1>2. f \in [Crs -> Results]
  BY DEF Result, Results
<1>3. DoCancel(q, f)
  BY DEF DoCancelOne
<1>4. \A x \in Crs : f[x] = Result(i, e)
  OBVIOUS
<1> HIDE DEF q, f
<1> QED BY <1>1, <1>2, <1>3, <1>4, DoCancelFacts

\* The positions counted by a timer scan are positions.
LEMMA CountBound ==
  ASSUME NEW X, NEW q \in Seq(X), NEW K, K \subseteq 1..Len(q)
  PROVE  Cardinality(K) \in 0..Len(q)
<1>1. Len(q) \in Nat /\ IsFiniteSet(1..Len(q)) /\ Cardinality(1..Len(q)) = Len(q)
  BY FS_Interval
<1>2. IsFiniteSet(K) /\ Cardinality(K) <= Cardinality(1..Len(q))
  BY <1>1, FS_Subset
<1>3. Cardinality(K) \in Nat
  BY <1>2, FS_CardinalityType
<1> QED BY <1>1, <1>2, <1>3

\* dill_timer.
LEMMA SetTimerFacts ==
  ASSUME TypeOK, NEW c \in Crs, NEW i \in Nat, NEW d \in Int, SetTimer(c, i, d)
  PROVE  /\ timers' \in Seq(Crs)
         /\ tm' \in [Crs -> [at : Nat, id : Nat]]
         /\ Range(timers) \subseteq Range(timers')
         /\ Range(timers') \subseteq Range(timers) \cup {c}
         /\ NoDup(timers) /\ c \notin Range(timers) => NoDup(timers')
<1>1. timers \in Seq(Crs) /\ tm \in [Crs -> [at : Nat, id : Nat]]
  BY DEF TypeOK
<1>2. CASE d < 0
  BY <1>1, <1>2 DEF SetTimer
<1>3. CASE ~(d < 0)
  <2> DEFINE k == TimerSlot(d)
             s == SubSeq(timers, 1, k - 1) \o <<c>> \o SubSeq(timers, k, Len(timers))
  <2>1. timers' = s /\ tm' = [tm EXCEPT ![c] = [at |-> d, id |-> i]]
    BY <1>3 DEF SetTimer
  <2>2. {j \in DOMAIN timers : tm[timers[j]].at <= d} \subseteq 1..Len(timers)
    BY <1>1
  <2>3. k \in 1..(Len(timers) + 1)
    <3> DEFINE K == {j \in DOMAIN timers : tm[timers[j]].at <= d}
    <3>1. Cardinality(K) \in 0..Len(timers)
      BY <1>1, <2>2, CountBound
    <3>2. k = 1 + Cardinality(K)
      BY DEF TimerSlot
    <3> HIDE DEF K, k
    <3> QED BY <3>1, <3>2, <1>1
  <2> HIDE DEF k
  <2>4. /\ s \in Seq(Crs) /\ Range(s) = Range(timers) \cup {c}
        /\ NoDup(timers) /\ c \notin Range(timers) => NoDup(s)
    BY <1>1, <2>3, RangeInsert
  <2>5. tm' \in [Crs -> [at : Nat, id : Nat]]
    BY <1>1, <1>3, <2>1
  <2> QED BY <2>1, <2>4, <2>5
<1> QED BY <1>2, <1>3

\* dill_longjmp to the head of the queue.
LEMMA JumpFacts ==
  ASSUME NEW q \in Seq(Crs), q # <<>>, NEW f \in [Crs -> Results], Jump(q, f)
  PROVE  /\ r' \in Crs /\ r' \in Range(q)
         /\ ready' \in Seq(Crs)
         /\ Range(q) = Range(ready') \cup {r'}
         /\ NoDup(q) => NoDup(ready') /\ r' \notin Range(ready')
         /\ ret' \in Results /\ ret' = f[r']
         /\ res' \in [Crs -> Results]
         /\ \A x \in Crs : res'[x] \in {f[x], NoResult}
<1>1. r' = Head(q) /\ ready' = Tail(q) /\ ret' = f[Head(q)]
        /\ res' = [f EXCEPT ![Head(q)] = NoResult]
  BY DEF Jump
<1>2. Head(q) \in Crs
  BY RangeTail
<1>3. \A x \in Crs : res'[x] \in {f[x], NoResult}
  BY <1>1
<1>4. res' \in [Crs -> Results]
  BY <1>1, ResultTypes
<1> QED BY <1>1, <1>2, <1>3, <1>4, RangeTail

-----------------------------------------------------------------------------
(***************************************************************************)
(* Every step preserves the invariant.                                     *)
(***************************************************************************)

\* The initial state.
LEMMA InitIInv == Init => IInv
<1> SUFFICES ASSUME Init PROVE IInv
  OBVIOUS
<1> USE SchedAssumption, CrAssumption DEF Init, SchedInit
<1>0. Range(<<>>) = {} /\ NoDup(<<>>) /\ <<>> \in Seq(Crs)
  BY DEF Range, NoDup
<1>1. TypeOK
  BY <1>0, ResultTypes DEF TypeOK, Ptr, Frames, NoTimer
<1>2. ReadyQueueSound
  BY <1>0 DEF ReadyQueueSound
<1>3. NoOrphans
  BY <1>0 DEF NoOrphans, Open
<1>4. CloseCoherent
  BY DEF CloseCoherent, Idle
<1>5. WaitCoherent
  BY DEF WaitCoherent, Idle
<1>6. CanceledNeverBlocks /\ CloseNotForgotten /\ WaitNotForgotten
  BY DEF CanceledNeverBlocks, CloseNotForgotten, WaitNotForgotten, Idle
<1>7. FreedOnlyFinished
  BY DEF FreedOnlyFinished, Idle
<1> QED BY <1>1, <1>2, <1>3, <1>4, <1>5, <1>6, <1>7 DEF IInv

\* The only result that dill_cr_close accepts is that of dill_epilogue.
LEMMA Answers ==
  /\ NoResult # Result(-1, "0")
  /\ Result(-1, "ECANCELED") # Result(-1, "0")
  /\ \A i : Result(i, "ETIMEDOUT") # Result(-1, "0")
  /\ Result(0, "0") # Result(-1, "0")
BY DEF NoResult, Result

\* A step that brings no answer to those in hclose() keeps FreedOnlyFinished.
LEMMA NoAnswer ==
  ASSUME IInv, Alive,
         \A x \in Crs : call'[x].op = "close" =>
            /\ call'[x] = call[x]
            /\ call[x].cur \in done => call[x].cur \in done'
            /\ x \in Range(ready') /\ res'[x] = Result(-1, "0")
                 => x \in Range(ready) /\ res[x] = Result(-1, "0")
            /\ r' = x /\ ret' = Result(-1, "0")
                 => \/ x \in Range(ready) /\ res[x] = Result(-1, "0")
                    \/ r = x /\ ret = Result(-1, "0")
  PROVE  FreedOnlyFinished'
BY DEF IInv, FreedOnlyFinished

\* When an assertion has failed nothing is promised but the types.
LEMMA DeadIInv ==
  ASSUME TypeOK', ~Alive' PROVE IInv'
BY DEF IInv, ReadyQueueSound, NoOrphans, CloseCoherent, WaitCoherent,
       CanceledNeverBlocks, CloseNotForgotten, WaitNotForgotten,
       FreedOnlyFinished

\* Who is suspended does not matter to the pointers: they stay coherent as
\* long as nothing of the bundles' state changes.
LEMMA CrVarsUnchanged ==
  ASSUME IInv, UNCHANGED crVars, nb1' = nb1, Alive
  PROVE  NoOrphans' /\ CloseCoherent' /\ WaitCoherent'
BY DEF IInv, crVars, NoOrphans, CloseCoherent, WaitCoherent, Open, Alive

\* A step that suspends nobody but the finished keeps the promises to those
\* that are suspended.
LEMMA NoneSuspended ==
  ASSUME IInv, UNCHANGED crVars, nb1' = nb1, Alive,
         \A c \in Crs : Suspended(c)' => Suspended(c)
  PROVE  CanceledNeverBlocks' /\ CloseNotForgotten' /\ WaitNotForgotten'
BY DEF IInv, crVars, CanceledNeverBlocks, CloseNotForgotten, WaitNotForgotten,
       Alive, TypeOK

\* dill_wait without a poll.
LEMMA RunReadyIInv ==
  ASSUME IInv, RunReady, UNCHANGED crVars PROVE IInv'
<1>1. Alive /\ r = NoCr /\ ready # <<>> /\ Jump(ready, res)
        /\ UNCHANGED <<timers, tm, wq, nb1, now, lastPoll, abort>>
  BY DEF RunReady, MustPoll
<1>2. TypeOK /\ ready \in Seq(Crs) /\ res \in [Crs -> Results]
  BY DEF IInv, TypeOK
<1>3. /\ r' \in Crs /\ r' \in Range(ready)
      /\ ready' \in Seq(Crs)
      /\ Range(ready) = Range(ready') \cup {r'}
      /\ NoDup(ready) => NoDup(ready') /\ r' \notin Range(ready')
      /\ ret' \in Results /\ ret' = res[r']
      /\ res' \in [Crs -> Results]
      /\ \A x \in Crs : res'[x] \in {res[x], NoResult}
  BY <1>1, <1>2, JumpFacts
<1>4. TypeOK'
  BY <1>1, <1>2, <1>3 DEF TypeOK, crVars, Ptr
<1>5. ReadyQueueSound'
  BY <1>1, <1>3 DEF IInv, ReadyQueueSound, crVars, Alive
<1>6. \A c \in Crs : Suspended(c)' => Suspended(c)
  BY <1>1, <1>3, SchedAssumption DEF Suspended
<1>7. FreedOnlyFinished'
  BY <1>1, <1>3, Answers, NoAnswer DEF crVars
<1> QED BY <1>1, <1>4, <1>5, <1>6, <1>7, CrVarsUnchanged, NoneSuspended DEF IInv

\* The expired timers are the first ones of the timer tree.
LEMMA DueFacts ==
  ASSUME TypeOK
  PROVE  /\ Due \in Seq(Crs) /\ Range(Due) \subseteq Range(timers)
         /\ NoDup(timers) => NoDup(Due)
<1> DEFINE K == {i \in DOMAIN timers : tm[timers[i]].at <= now}
           k == Cardinality(K)
<1>1. timers \in Seq(Crs)
  BY DEF TypeOK
<1>2. K \subseteq 1..Len(timers)
  BY <1>1
<1>3. k \in 0..Len(timers)
  BY <1>1, <1>2, CountBound
<1>4. Due = SubSeq(timers, 1, k)
  BY DEF Due
<1> HIDE DEF k
<1>5. k \in Nat /\ k <= Len(timers) /\ 1 \in Nat /\ 1 <= 1
  BY <1>1, <1>3
<1> QED BY <1>1, <1>4, <1>5, RangeSubSeq

\* dill_wait with a poll: the expired timers are those of suspended coroutines.
LEMMA PollAndRunIInv ==
  ASSUME IInv, PollAndRun, UNCHANGED crVars PROVE IInv'
<1> DEFINE f == [c \in Crs |-> IF c \in Range(Due)
                               THEN Result(tm[c].id, "ETIMEDOUT") ELSE res[c]]
           q == ready \o Due
<1>1. TypeOK /\ ready \in Seq(Crs) /\ timers \in Seq(Crs) /\ res \in [Crs -> Results]
        /\ tm \in [Crs -> [at : Nat, id : Nat]]
  BY DEF IInv, TypeOK
<1>2. Due \in Seq(Crs) /\ Range(Due) \subseteq Range(timers) /\ (NoDup(timers) => NoDup(Due))
  BY <1>1, DueFacts
<1>3. Alive /\ r = NoCr
  BY DEF PollAndRun
<1>4. CASE Range(Due) \cap Range(ready) # {}
  <2>1. FALSE
    BY <1>2, <1>3, <1>4 DEF IInv, ReadyQueueSound
  <2> QED BY <2>1
<1>5. CASE Range(Due) \cap Range(ready) = {}
  <2>1. CancelClauses(Range(Due)) /\ Jump(q, f) /\ lastPoll' = now
          /\ UNCHANGED <<nb1, now, abort>> /\ (ready # <<>> \/ Due # <<>>)
    BY <1>5 DEF PollAndRun
  <2>2. f \in [Crs -> Results]
    BY <1>1 DEF Result, Results, Errors
  <2>3. q \in Seq(Crs) /\ Range(q) = Range(ready) \cup Range(Due)
          /\ (NoDup(ready) /\ NoDup(Due) => NoDup(q))
    BY <1>1, <1>2, <1>5, RangeConcat
  <2>4. q # <<>>
    BY <1>1, <1>2, <2>1, <2>3, RangeDef
  <2> HIDE DEF f, q
  <2>5. /\ r' \in Crs /\ r' \in Range(q)
        /\ ready' \in Seq(Crs)
        /\ Range(q) = Range(ready') \cup {r'}
        /\ NoDup(q) => NoDup(ready') /\ r' \notin Range(ready')
        /\ ret' \in Results /\ ret' = f[r']
        /\ res' \in [Crs -> Results]
        /\ \A x \in Crs : res'[x] \in {f[x], NoResult}
    BY <2>1, <2>2, <2>3, <2>4, JumpFacts
  <2>6. /\ timers' \in Seq(Crs)
        /\ Range(timers') = Range(timers) \ Range(Due)
        /\ NoDup(timers) => NoDup(timers')
        /\ tm' \in [Crs -> [at : Nat, id : Nat]]
        /\ wq' \in [Endpoints -> Seq(Crs)]
    BY <1>1, <2>1, CancelClausesFacts
  <2>7. TypeOK'
    BY <1>1, <2>1, <2>5, <2>6 DEF TypeOK, crVars, Ptr
  <2>8. ReadyQueueSound'
    BY <1>2, <1>3, <2>1, <2>3, <2>5, <2>6
    DEF IInv, ReadyQueueSound, crVars, Alive
  <2>9. \A c \in Crs : Suspended(c)' => Suspended(c)
    BY <1>3, <2>3, <2>5, SchedAssumption DEF Suspended
  <2>10. FreedOnlyFinished'
    <3>1. ASSUME NEW x \in Crs, f[x] = Result(-1, "0"), x \in Range(q)
          PROVE  x \in Range(ready) /\ res[x] = Result(-1, "0")
      BY <2>3, <3>1, Answers DEF f
    <3>2. \A x \in Crs : x \in Range(ready') => x \in Range(q)
      BY <2>5
    <3> QED BY <1>3, <2>1, <2>5, <3>1, <3>2, Answers, NoAnswer DEF crVars
  <2> QED BY <1>3, <2>1, <2>7, <2>8, <2>9, <2>10, CrVarsUnchanged, NoneSuspended
          DEF IInv
<1> QED BY <1>4, <1>5

\* The clock, and the end of the process.
LEMMA TickIInv ==
  ASSUME IInv, Tick \/ Crashed, UNCHANGED crVars PROVE IInv'
<1>1. /\ UNCHANGED <<r, ret, ready, res, timers, tm, wq, nb1, lastPoll, abort>>
      /\ now' = now \/ now' = now + 1
  BY DEF Tick, Crashed, schedVars
<1>2. TypeOK'
  BY <1>1 DEF IInv, TypeOK, crVars
<1>3. (ReadyQueueSound /\ NoOrphans /\ CloseCoherent /\ WaitCoherent
        /\ CanceledNeverBlocks /\ CloseNotForgotten /\ WaitNotForgotten
        /\ FreedOnlyFinished)'
  BY <1>1 DEF IInv, crVars, ReadyQueueSound, NoOrphans, CloseCoherent,
     WaitCoherent, CanceledNeverBlocks, CloseNotForgotten, WaitNotForgotten,
     FreedOnlyFinished, Alive, Suspended, Open
<1> QED BY <1>2, <1>3 DEF IInv

\* dill_bundle.
LEMMA BundleIInv ==
  ASSUME IInv, NEW c \in Crs, NEW b \in Bundles, Bundle(c, b) PROVE IInv'
<1>1. /\ Alive /\ r = c /\ call[c] = Idle /\ owner[b] = NoCr
      /\ owner' = [owner EXCEPT ![b] = c]
      /\ UNCHANGED schedVars
      /\ UNCHANGED <<live, done, closer, call, crs, waiter>>
  BY DEF Bundle, User, Running, Open
<1>2. UNCHANGED <<r, ret, ready, res, timers, tm, wq, nb1, now, lastPoll, abort>>
  BY <1>1 DEF schedVars
<1>3. TypeOK /\ owner \in [Bundles -> Ptr] /\ crs[b] = <<>> /\ Range(<<>>) = {}
        /\ crs \in [Bundles -> Seq(Crs)]
  BY <1>1, RangeSmall DEF IInv, TypeOK, NoOrphans, Open
<1>4. TypeOK'
  BY <1>1, <1>2, <1>3 DEF TypeOK, Ptr
<1>5. ReadyQueueSound'
  BY <1>1, <1>2 DEF IInv, ReadyQueueSound, Alive
<1>6. NoOrphans'
  BY <1>1, <1>2, <1>3, SchedAssumption DEF IInv, NoOrphans, Open, Alive
<1>7. CloseCoherent'
  BY <1>1, <1>2, <1>3, SchedAssumption DEF IInv, CloseCoherent, Alive, TypeOK
<1>8. WaitCoherent'
  BY <1>1, <1>2, <1>3, SchedAssumption
  DEF IInv, WaitCoherent, ReadyQueueSound, Alive, TypeOK
<1>9. CanceledNeverBlocks' /\ CloseNotForgotten' /\ WaitNotForgotten'
  BY <1>1, <1>2 DEF IInv, CanceledNeverBlocks, CloseNotForgotten,
     WaitNotForgotten, Suspended, Alive
<1>10. FreedOnlyFinished'
  BY <1>1, <1>2 DEF IInv, FreedOnlyFinished, Alive
<1> QED BY <1>4, <1>5, <1>6, <1>7, <1>8, <1>9, <1>10 DEF IInv

\* dill_yield.
LEMMA YieldIInv ==
  ASSUME IInv, NEW c \in Crs, Yield(c) PROVE IInv'
<1> DEFINE f == [x \in Crs |-> NoResult]
<1>1. /\ Alive /\ r = c /\ call[c] = Idle /\ Resume(<<c>>, f) /\ r' = NoCr /\ ret' = NoResult
      /\ UNCHANGED <<timers, tm, wq, nb1, now, lastPoll, abort, crVars>>
  BY DEF Yield, User, Running, Suspend
<1>2. TypeOK
  BY DEF IInv
<1>3. f \in [Crs -> Results]
  BY ResultTypes
<1> HIDE DEF f
<1>4. /\ ready' \in Seq(Crs)
      /\ Range(ready') = Range(ready) \cup {c}
      /\ NoDup(ready) /\ c \notin Range(ready) => NoDup(ready')
      /\ res' \in [Crs -> Results]
      /\ \A x \in Crs : res'[x] \in {f[x], res[x]}
  BY <1>1, <1>2, <1>3, ResumeOne
<1>5. TypeOK'
  BY <1>1, <1>2, <1>4, ResultTypes DEF TypeOK, crVars, Ptr
<1>6. NoCr \notin Range(ready') /\ NoCr \notin Range(timers')
  BY <1>5, SchedAssumption, RangeDef DEF TypeOK
<1>7. ReadyQueueSound'
  BY <1>1, <1>4, <1>6, SchedAssumption DEF IInv, ReadyQueueSound, crVars, Alive
<1>8. \A x \in Crs : Suspended(x)' => Suspended(x)
  BY <1>1, <1>4 DEF Suspended
<1>9. FreedOnlyFinished'
  <2>1. \A x \in Crs : f[x] = NoResult
    BY DEF f
  <2> QED BY <1>1, <1>4, <2>1, Answers, NoAnswer, SchedAssumption, FrameTypes
          DEF crVars, IInv, ReadyQueueSound
<1> QED BY <1>1, <1>5, <1>7, <1>8, <1>9, CrVarsUnchanged, NoneSuspended DEF IInv

\* dill_msleep.
LEMMA MsleepIInv ==
  ASSUME IInv, NEW c \in Crs, NEW delay \in SleepDelays, Msleep(c, delay)
  PROVE  IInv'
<1>1. /\ Alive /\ r = c /\ call[c] = Idle /\ c \notin nb1
      /\ SetTimer(c, 1, Deadline(delay)) /\ r' = NoCr /\ ret' = NoResult
      /\ UNCHANGED <<ready, res, wq, nb1, now, lastPoll, abort, crVars>>
  BY DEF Msleep, User, Running, Suspend, CanBlock
<1>2. TypeOK /\ now \in Nat
  BY DEF IInv, TypeOK
<1>3. Deadline(delay) \in Int
  BY <1>2, CrAssumption DEF Deadline, Forever
<1>4. /\ timers' \in Seq(Crs)
      /\ tm' \in [Crs -> [at : Nat, id : Nat]]
      /\ Range(timers) \subseteq Range(timers')
      /\ Range(timers') \subseteq Range(timers) \cup {c}
      /\ NoDup(timers) /\ c \notin Range(timers) => NoDup(timers')
  BY <1>1, <1>2, <1>3, SetTimerFacts
<1>5. TypeOK'
  BY <1>1, <1>2, <1>4, ResultTypes DEF TypeOK, crVars, Ptr
<1>6. NoCr \notin Range(ready') /\ NoCr \notin Range(timers')
  BY <1>5, SchedAssumption, RangeDef DEF TypeOK
<1>7. ReadyQueueSound'
  BY <1>1, <1>4, <1>6, SchedAssumption DEF IInv, ReadyQueueSound, crVars, Alive
<1>8. \A x \in Crs \ {c} : Suspended(x)' => Suspended(x)
  BY <1>1 DEF Suspended
<1>9. CanceledNeverBlocks' /\ CloseNotForgotten' /\ WaitNotForgotten'
  BY <1>1, <1>8 DEF IInv, crVars, CanceledNeverBlocks, CloseNotForgotten,
     WaitNotForgotten, Alive, Idle, TypeOK
<1>10. FreedOnlyFinished'
  BY <1>1, NoAnswer, SchedAssumption DEF crVars
<1> QED BY <1>1, <1>5, <1>7, <1>9, <1>10, CrVarsUnchanged DEF IInv

\* dill_bundle_wait, up to its dill_wait.
LEMMA BundleWaitIInv ==
  ASSUME IInv, NEW c \in Crs, NEW b \in Bundles, NEW delay \in WaitDelays,
         BundleWait(c, b, delay)
  PROVE  IInv'
<1>1. /\ Alive /\ r = c /\ call[c] = Idle /\ c \notin nb1
      /\ owner[b] = c /\ crs[b] # <<>>
      /\ waiter' = [waiter EXCEPT ![b] = c]
      /\ call' = [call EXCEPT ![c] = InWait(b)]
      /\ SetTimer(c, 1, Deadline(delay)) /\ r' = NoCr /\ ret' = NoResult
      /\ UNCHANGED <<ready, res, wq, nb1, now, lastPoll, abort,
                     live, done, closer, owner, crs>>
  BY DEF BundleWait, User, Running, Suspend, CanBlock
<1>2. TypeOK /\ now \in Nat
  BY DEF IInv, TypeOK
<1>3. Deadline(delay) \in Int
  BY <1>2, CrAssumption DEF Deadline, Forever
<1>4. /\ timers' \in Seq(Crs)
      /\ tm' \in [Crs -> [at : Nat, id : Nat]]
      /\ Range(timers) \subseteq Range(timers')
      /\ Range(timers') \subseteq Range(timers) \cup {c}
      /\ NoDup(timers) /\ c \notin Range(timers) => NoDup(timers')
  BY <1>1, <1>2, <1>3, SetTimerFacts
<1>5. TypeOK'
  BY <1>1, <1>2, <1>4, ResultTypes, FrameTypes DEF TypeOK, Ptr
<1>6. NoCr \notin Range(ready') /\ NoCr \notin Range(timers')
  BY <1>5, SchedAssumption, RangeDef DEF TypeOK
<1>7. ReadyQueueSound'
  BY <1>1, <1>4, <1>6, SchedAssumption DEF IInv, ReadyQueueSound, Alive
<1>8. /\ \A x \in Crs \ {c} : call'[x] = call[x] /\ (Suspended(x)' => Suspended(x))
      /\ call'[c].op = "wait" /\ call'[c].b = b /\ call[c].op = "none"
      /\ waiter'[b] = c /\ \A a \in Bundles \ {b} : waiter'[a] = waiter[a]
  BY <1>1, <1>2 DEF Suspended, InWait, Idle, TypeOK
<1>9. NoOrphans'
  BY <1>1 DEF IInv, NoOrphans, Alive, Open
<1>10. CloseCoherent'
  BY <1>1, <1>2, <1>8, SchedAssumption DEF IInv, CloseCoherent, Alive, TypeOK, Ptr
<1>11. WaitCoherent'
  BY <1>1, <1>2, <1>8, SchedAssumption DEF IInv, WaitCoherent, Alive, TypeOK, Ptr
<1>12. CanceledNeverBlocks'
  BY <1>1, <1>2, <1>8 DEF IInv, CanceledNeverBlocks, Alive, TypeOK
<1>13. CloseNotForgotten'
  BY <1>1, <1>2, <1>8 DEF IInv, CloseNotForgotten, Alive, TypeOK
<1>14. WaitNotForgotten'
  <2>1. ASSUME NEW x \in Crs, x # c, call[x].op = "wait"
        PROVE  call[x].b # b /\ call[x].b \in Bundles
    BY <1>1, <1>2, <2>1, FrameTypes DEF IInv, WaitCoherent, TypeOK
  <2> QED BY <1>1, <1>2, <1>8, <2>1 DEF IInv, WaitNotForgotten, Alive
<1>15. FreedOnlyFinished'
  BY <1>1, <1>8, NoAnswer, SchedAssumption
<1> QED BY <1>5, <1>7, <1>9, <1>10, <1>11, <1>12, <1>13, <1>14, <1>15 DEF IInv

\* dill_bundle_wait, after its dill_wait.
LEMMA BundleWaitReturnIInv ==
  ASSUME IInv, NEW c \in Crs, BundleWaitReturn(c) PROVE IInv'
<1> DEFINE b == call[c].b
<1>1. /\ Alive /\ r = c /\ call[c].op = "wait"
      /\ waiter' = [waiter EXCEPT ![b] = NoCr]
      /\ call' = [call EXCEPT ![c] = Idle]
      /\ abort' \in {abort, "bundle_wait"}
      /\ UNCHANGED <<r, ret, ready, res, timers, tm, wq, nb1, now, lastPoll,
                     live, done, closer, owner, crs>>
  BY DEF BundleWaitReturn, Running
<1>2. TypeOK
  BY DEF IInv
<1>3. b \in Bundles
  BY <1>1, <1>2, FrameTypes DEF TypeOK
<1>4. TypeOK'
  BY <1>1, <1>2, FrameTypes DEF TypeOK, Ptr
<1>5. ReadyQueueSound'
  BY <1>1 DEF IInv, ReadyQueueSound, Alive
<1>6. NoOrphans'
  BY <1>1 DEF IInv, NoOrphans, Alive, Open
<1>8. /\ \A x \in Crs \ {c} : call'[x] = call[x]
      /\ call'[c].op = "none" /\ call[c].op = "wait"
      /\ waiter'[b] = NoCr /\ \A a \in Bundles \ {b} : waiter'[a] = waiter[a]
      /\ owner[b] = c
  BY <1>1, <1>2, <1>3 DEF Idle, TypeOK, IInv, WaitCoherent
<1> HIDE DEF b
<1>10. CloseCoherent'
  BY <1>1, <1>2, <1>8, SchedAssumption DEF IInv, CloseCoherent, Alive, TypeOK, Ptr
<1>11. WaitCoherent'
  <2>1. \A a \in Bundles : waiter[a] = c => a = b
    BY <1>1, <1>2, SchedAssumption DEF IInv, WaitCoherent, b
  <2> QED BY <1>1, <1>2, <1>3, <1>8, <2>1, SchedAssumption
    DEF IInv, WaitCoherent, Alive, TypeOK, Ptr
<1>12. CanceledNeverBlocks'
  BY <1>1, <1>2, <1>8 DEF IInv, CanceledNeverBlocks, Alive, Suspended, TypeOK
<1>13. CloseNotForgotten'
  BY <1>1, <1>2, <1>8 DEF IInv, CloseNotForgotten, Alive, Suspended, TypeOK
<1>14. WaitNotForgotten'
  <2>1. ASSUME NEW x \in Crs, x # c, call[x].op = "wait" PROVE call[x].b # b /\ call[x].b \in Bundles
    BY <1>1, <1>2, <1>8, <2>1, FrameTypes DEF IInv, WaitCoherent, TypeOK
  <2> QED BY <1>1, <1>2, <1>8, <2>1 DEF IInv, WaitNotForgotten, Alive, Suspended
<1>15. FreedOnlyFinished'
  BY <1>1, <1>8, NoAnswer
<1> QED BY <1>4, <1>5, <1>6, <1>10, <1>11, <1>12, <1>13, <1>14, <1>15 DEF IInv

\* The common part of go() and bundle_go(): the owner of b is set, c is not a
\* member of a bundle it would own.
LEMMA LaunchIInv ==
  ASSUME IInv, NEW c \in Crs, NEW b \in Bundles, NEW d \in Crs,
         Alive, r = c, call[c] = Idle, CanBlock(c), Launch(c, b, d),
         \/ owner[b] = NoCr /\ owner' = [owner EXCEPT ![b] = c]
         \/ owner[b] # NoCr /\ owner' = owner
  PROVE  IInv'
<1> DEFINE f == [x \in Crs |-> NoResult]
<1>1. /\ d \notin live
      /\ live' = live \cup {d}
      /\ crs' = [crs EXCEPT ![b] = Append(@, d)]
      /\ Resume(<<c>>, f)
      /\ r' = d /\ ret' = NoResult
      /\ UNCHANGED <<timers, tm, wq, nb1, now, lastPoll, abort,
                     done, closer, call, waiter>>
  BY DEF Launch
<1>2. TypeOK /\ crs \in [Bundles -> Seq(Crs)] /\ owner \in [Bundles -> Ptr]
        /\ call \in [Crs -> Frames] /\ closer \in [Crs -> Ptr]
        /\ waiter \in [Bundles -> Ptr]
  BY DEF IInv, TypeOK
<1>3. f \in [Crs -> Results]
  BY ResultTypes
<1> HIDE DEF f
<1>4. /\ ready' \in Seq(Crs)
      /\ Range(ready') = Range(ready) \cup {c}
      /\ NoDup(ready) /\ c \notin Range(ready) => NoDup(ready')
      /\ res' \in [Crs -> Results]
      /\ \A x \in Crs : res'[x] \in {f[x], res[x]}
  BY <1>1, <1>2, <1>3, ResumeOne
<1>5. /\ crs'[b] \in Seq(Crs) /\ Range(crs'[b]) = Range(crs[b]) \cup {d}
      /\ NoDup(crs[b]) /\ d \notin Range(crs[b]) => NoDup(crs'[b])
      /\ \A a \in Bundles \ {b} : crs'[a] = crs[a]
      /\ crs'[b] # <<>> /\ (crs[b] # <<>> => Head(crs'[b]) = Head(crs[b]))
      /\ crs' \in [Bundles -> Seq(Crs)]
  <2>1. crs'[b] = Append(crs[b], d) /\ \A a \in Bundles \ {b} : crs'[a] = crs[a]
    BY <1>1, <1>2
  <2>2. crs[b] \in Seq(Crs)
    BY <1>2
  <2>3. Append(crs[b], d) # <<>> /\ (crs[b] # <<>> => Head(Append(crs[b], d)) = Head(crs[b]))
    BY <2>2
  <2>4. crs'[b] \in Seq(Crs) /\ Range(crs'[b]) = Range(crs[b]) \cup {d}
          /\ (NoDup(crs[b]) /\ d \notin Range(crs[b]) => NoDup(crs'[b]))
    <3> DEFINE g == crs[b]
    <3>1. crs'[b] = Append(g, d) /\ g \in Seq(Crs)
      BY <2>1, <2>2
    <3> HIDE DEF g
    <3>2. crs'[b] = g \o <<d>>
      BY <3>1, RangePush
    <3> DEFINE h == g \o <<d>>
    <3>3. h \in Seq(Crs) /\ Range(h) = Range(g) \cup {d}
            /\ (NoDup(g) /\ d \notin Range(g) => NoDup(h))
      BY <3>1, RangePush
    <3>4. crs'[b] = h
      BY <3>2
    <3> HIDE DEF h
    <3>5. crs'[b] \in Seq(Crs) /\ Range(crs'[b]) = Range(g) \cup {d}
            /\ (NoDup(g) /\ d \notin Range(g) => NoDup(crs'[b]))
      BY <3>3, <3>4
    <3> QED BY <3>5 DEF g
  <2>5. crs' \in [Bundles -> Seq(Crs)]
    BY <1>1, <1>2, <2>1, <2>4
  <2> QED BY <2>1, <2>3, <2>4, <2>5
<1>6. /\ owner'[b] \in Crs /\ owner'[b] \in {c, owner[b]} /\ (owner[b] # NoCr => owner'[b] = owner[b])
      /\ \A a \in Bundles \ {b} : owner'[a] = owner[a]
      /\ owner' \in [Bundles -> Ptr]
  BY <1>2 DEF Ptr
<1>7. TypeOK'
  <2>1. r' \in Ptr /\ ret' \in Results /\ live' \subseteq Crs
    BY <1>1, <1>2, ResultTypes DEF TypeOK, Ptr
  <2>2. ready' \in Seq(Crs) /\ res' \in [Crs -> Results]
          /\ owner' \in [Bundles -> Ptr] /\ crs' \in [Bundles -> Seq(Crs)]
    BY <1>4, <1>5, <1>6
  <2> QED BY <1>1, <1>2, <2>1, <2>2 DEF TypeOK
<1>8. c \in live \ done /\ c # d /\ d \notin done /\ d \notin nb1
  BY <1>1, SchedAssumption DEF IInv, ReadyQueueSound, CloseCoherent
<1>9. ReadyQueueSound'
  BY <1>1, <1>4, <1>8 DEF IInv, ReadyQueueSound, Alive
<1>10. owner'[b] \in live \ done
  BY <1>6, <1>8, SchedAssumption DEF IInv, WaitCoherent
<1>11. \A a \in Bundles : Range(crs[a]) \subseteq live /\ d \notin Range(crs[a])
  BY <1>1 DEF IInv, NoOrphans
<1>12. owner[b] = NoCr => crs[b] = <<>> /\ Range(crs[b]) = {}
  BY RangeSmall DEF IInv, NoOrphans, Open
<1>13. NoOrphans'
  <2>1. (Main \in live)'
    BY <1>1 DEF IInv, NoOrphans
  <2>2. \A x \in live' \ {Main} : \E a \in Bundles : x \in Range(crs'[a])
    BY <1>1, <1>5 DEF IInv, NoOrphans
  <2>3. ASSUME NEW a \in Bundles
        PROVE  /\ NoDup(crs'[a])
               /\ Range(crs'[a]) \subseteq live' \ {Main, owner'[a]}
               /\ owner'[a] = NoCr => crs'[a] = <<>>
               /\ \A z \in Bundles \ {a} : Range(crs'[z]) \cap Range(crs'[a]) = {}
    <3>1. NoDup(crs'[a])
      BY <1>5, <1>11 DEF IInv, NoOrphans
    <3>2. Range(crs'[a]) \subseteq live' \ {Main, owner'[a]}
      BY <1>1, <1>5, <1>6, <1>10, <1>11, <1>12 DEF IInv, NoOrphans
    <3>3. owner'[a] = NoCr => crs'[a] = <<>>
      BY <1>5, <1>6, SchedAssumption DEF IInv, NoOrphans, Open
    <3>4. ASSUME NEW z \in Bundles \ {a} PROVE Range(crs'[z]) \cap Range(crs'[a]) = {}
      <4>1. Range(crs[z]) \cap Range(crs[a]) = {}
              /\ d \notin Range(crs[z]) /\ d \notin Range(crs[a])
        BY <1>11 DEF IInv, NoOrphans
      <4>2. CASE a = b
        BY <1>5, <4>1, <4>2
      <4>3. CASE z = b
        BY <1>5, <4>1, <4>3
      <4>4. CASE a # b /\ z # b
        BY <1>5, <4>1, <4>4
      <4> QED BY <4>2, <4>3, <4>4
    <3> QED BY <3>1, <3>2, <3>3, <3>4
  <2> QED BY <2>1, <2>2, <2>3 DEF NoOrphans, Open
<1>14. CloseCoherent'
  <2>1. ASSUME NEW x \in Crs, call[x].op = "close"
        PROVE  /\ owner'[call[x].b] = x
               /\ crs'[call[x].b] # <<>>
               /\ Head(crs'[call[x].b]) = call[x].cur
               /\ closer[call[x].cur] = x
    <3>1. call[x].b \in Bundles
      BY <2>1, <1>2, FrameTypes
    <3>2. owner[call[x].b] = x /\ crs[call[x].b] # <<>>
            /\ Head(crs[call[x].b]) = call[x].cur /\ closer[call[x].cur] = x
      BY <2>1 DEF IInv, CloseCoherent
    <3> QED BY <3>1, <3>2, <1>5, <1>6, SchedAssumption
  <2> QED BY <2>1, <1>1 DEF IInv, CloseCoherent, Alive
<1>15. WaitCoherent'
  <2>1. ASSUME NEW x \in Crs, call[x].op = "wait"
        PROVE  owner'[call[x].b] = x /\ waiter[call[x].b] = x
    <3>1. call[x].b \in Bundles
      BY <2>1, <1>2, FrameTypes
    <3>2. owner[call[x].b] = x /\ waiter[call[x].b] = x
      BY <2>1 DEF IInv, WaitCoherent
    <3> QED BY <3>1, <3>2, <1>6, SchedAssumption
  <2>2. \A a \in Bundles : owner'[a] # NoCr => owner'[a] \in live' \ done'
    BY <1>1, <1>6, <1>10 DEF IInv, WaitCoherent
  <2> QED BY <2>1, <2>2, <1>1 DEF IInv, WaitCoherent, Alive
<1>16. \A x \in Crs : Suspended(x)' => Suspended(x) /\ x # d
  BY <1>1, <1>4 DEF Suspended
<1>17. CanceledNeverBlocks' /\ CloseNotForgotten'
  <2>1. ASSUME NEW x \in nb1 \ done, Suspended(x)' PROVE call[x].op = "close"
    BY <1>2, <1>16, <2>1 DEF IInv, CanceledNeverBlocks, TypeOK
  <2>2. ASSUME NEW x \in Crs, call[x].op = "close", Suspended(x)'
        PROVE  call[x].cur \notin done /\ closer[call[x].cur] = x
    BY <1>16, <2>2 DEF IInv, CloseNotForgotten
  <2> QED BY <1>1, <2>1, <2>2 DEF CanceledNeverBlocks, CloseNotForgotten
<1>18. WaitNotForgotten'
  <2>1. ASSUME NEW x \in Crs, call[x].op = "wait", Suspended(x)'
        PROVE  waiter[call[x].b] = x /\ crs'[call[x].b] # <<>>
    <3>1. call[x].b \in Bundles
      BY <2>1, <1>2, FrameTypes
    <3> QED BY <2>1, <3>1, <1>5, <1>16 DEF IInv, WaitNotForgotten
  <2> QED BY <2>1, <1>1 DEF WaitNotForgotten
<1>19. FreedOnlyFinished'
  <2>1. \A x \in Crs : f[x] = NoResult
    BY DEF f
  <2>2. \A x \in Crs : call[x].op = "close" => x # c
    BY FrameTypes
  <2> QED BY <1>1, <1>4, <2>1, <2>2, Answers, NoAnswer
<1> QED BY <1>7, <1>9, <1>13, <1>14, <1>15, <1>17, <1>18, <1>19 DEF IInv

\* go() and bundle_go().
LEMMA GoIInv ==
  ASSUME IInv, NEW c \in Crs, NEW b \in Bundles, NEW d \in Crs,
         Go(c, b, d) \/ BundleGo(c, b, d)
  PROVE  IInv'
BY LaunchIInv DEF Go, BundleGo, User, Running, Open

\* What is known when the loop of dill_bundle_close looks for the next
\* coroutine: q is what is left of the list of bundle b, F what is freed.
CloseLoop(c, b, q, F) ==
  /\ Alive /\ r = c /\ owner[b] = c
  /\ \/ call[c] = Idle /\ q = crs[b] /\ F = {}
     \/ /\ call[c].op = "close" /\ call[c].b = b /\ q = Tail(crs[b])
        /\ F = {call[c].cur} /\ call[c].cur \in done

\* The facts about the list and the freed coroutine.
LEMMA CloseLoopFacts ==
  ASSUME IInv, NEW c \in Crs, NEW b \in Bundles, NEW q, NEW F,
         CloseLoop(c, b, q, F)
  PROVE  /\ q \in Seq(Crs) /\ NoDup(q)
         /\ Range(q) \cap F = {} /\ Range(crs[b]) = Range(q) \cup F
         /\ F \subseteq done /\ Main \notin F
         /\ \A a \in Bundles \ {b} : Range(crs[a]) \cap F = {}
         /\ \A x \in Crs : call[x].op = "close" /\ x # c => call[x].cur \notin F
         /\ \A d \in nb1 \ F : closer[d] # c
         /\ Range(q) \subseteq live \ {Main, c}
         /\ q # <<>> => Head(q) \in Range(q) /\ Head(q) \in Crs
<1>0. TypeOK /\ crs[b] \in Seq(Crs) /\ NoDup(crs[b]) /\ call \in [Crs -> Frames]
        /\ Range(crs[b]) \subseteq live \ {Main, owner[b]} /\ owner[b] = c /\ Alive
  BY DEF IInv, TypeOK, NoOrphans, CloseLoop
<1>1. CASE call[c] = Idle /\ q = crs[b] /\ F = {}
  <2>1. call[c].op = "none"
    BY <1>1, FrameTypes
  <2>2. \A d \in nb1 \ F : closer[d] # c
    BY <1>0, <2>1 DEF IInv, CloseCoherent
  <2>3. q # <<>> => Head(q) \in Range(q) /\ Head(q) \in Crs
    BY <1>0, <1>1, RangeTail
  <2> QED BY <1>0, <1>1, <2>2, <2>3
<1>2. CASE /\ call[c].op = "close" /\ call[c].b = b /\ q = Tail(crs[b])
           /\ F = {call[c].cur} /\ call[c].cur \in done
  <2> DEFINE d == call[c].cur
  <2>1. crs[b] # <<>> /\ Head(crs[b]) = d /\ closer[d] = c
    BY <1>0, <1>2 DEF IInv, CloseCoherent
  <2>2. /\ d \in Range(crs[b]) /\ q \in Seq(Crs) /\ NoDup(q)
        /\ d \notin Range(q) /\ Range(crs[b]) = Range(q) \cup {d}
    BY <1>0, <1>2, <2>1, RangeTail
  <2>3. \A a \in Bundles \ {b} : Range(crs[a]) \cap F = {}
    BY <1>0, <1>2, <2>2 DEF IInv, NoOrphans
  <2>4. \A x \in Crs : call[x].op = "close" /\ x # c => call[x].cur \notin F
    BY <1>0, <1>2, <2>1 DEF IInv, CloseCoherent
  <2>5. \A x \in nb1 \ F : closer[x] # c
    BY <1>0, <1>2 DEF IInv, CloseCoherent
  <2>6. q # <<>> => Head(q) \in Range(q) /\ Head(q) \in Crs
    BY <2>2, RangeTail
  <2> HIDE DEF d
  <2>7. F = {d} /\ d \in done
    BY <1>2 DEF d
  <2> QED BY <1>0, <2>2, <2>3, <2>4, <2>5, <2>6, <2>7
<1> QED BY <1>1, <1>2 DEF CloseLoop

\* bundle_close has come to the end of the list.
LEMMA CloseEndIInv ==
  ASSUME IInv, NEW c \in Crs, NEW b \in Bundles, NEW F,
         CloseLoop(c, b, <<>>, F), CloseRest(c, b, <<>>, F)
  PROVE  IInv'
<1> DEFINE q == <<>>
<1>1. /\ Alive /\ r = c /\ owner[b] = c
      /\ live' = live \ F /\ done' = done \ F
      /\ crs' = [crs EXCEPT ![b] = <<>>]
      /\ nb1' = nb1 \ F
      /\ closer' = [x \in Crs |-> IF x = NoCr THEN NoCr ELSE IF x \in F THEN NoCr ELSE closer[x]]
      /\ owner' = [owner EXCEPT ![b] = NoCr]
      /\ waiter' = [waiter EXCEPT ![b] = NoCr]
      /\ call' = [call EXCEPT ![c] = Idle]
      /\ UNCHANGED <<r, ret, ready, res, timers, tm, wq, abort, now, lastPoll>>
  BY DEF CloseRest, CloseLoop, CloserAfter
<1>2. /\ Range(crs[b]) = F
      /\ F \subseteq done /\ Main \notin F
      /\ \A a \in Bundles \ {b} : Range(crs[a]) \cap F = {}
      /\ \A x \in Crs : call[x].op = "close" /\ x # c => call[x].cur \notin F
      /\ \A d \in nb1 \ F : closer[d] # c
  <2>1. Range(q) = {}
    BY RangeSmall
  <2>2. CloseLoop(c, b, q, F)
    OBVIOUS
  <2> HIDE DEF q
  <2>3. /\ Range(crs[b]) = Range(q) \cup F
        /\ F \subseteq done /\ Main \notin F
    BY <2>2, CloseLoopFacts
  <2>4. \A a \in Bundles \ {b} : Range(crs[a]) \cap F = {}
    BY <2>2, CloseLoopFacts
  <2>5. \A x \in Crs : call[x].op = "close" /\ x # c => call[x].cur \notin F
    BY <2>2, CloseLoopFacts
  <2>6. \A d \in nb1 \ F : closer[d] # c
    BY <2>2, CloseLoopFacts
  <2>7. Range(crs[b]) = F
    BY <2>1, <2>3
  <2> QED BY <2>3, <2>4, <2>5, <2>6, <2>7
<1>3. TypeOK
  BY DEF IInv
<1>4. /\ \A x \in Crs \ {c} : call'[x] = call[x]
      /\ call'[c].op = "none" /\ call'[c] = Idle
      /\ crs'[b] = <<>> /\ \A a \in Bundles \ {b} : crs'[a] = crs[a]
      /\ owner'[b] = NoCr /\ \A a \in Bundles \ {b} : owner'[a] = owner[a]
      /\ waiter'[b] = NoCr /\ \A a \in Bundles \ {b} : waiter'[a] = waiter[a]
      /\ \A x \in Crs \ F : closer'[x] = closer[x]
      /\ \A x \in Crs \cap F : closer'[x] = NoCr
  BY <1>1, <1>3, FrameTypes, SchedAssumption DEF TypeOK
<1>5. TypeOK'
  <2>1. closer' \in [Crs -> Ptr]
    BY <1>1, <1>3 DEF TypeOK, Ptr
  <2>2. call' \in [Crs -> Frames]
    BY <1>1, <1>3, FrameTypes DEF TypeOK
  <2>3. owner' \in [Bundles -> Ptr] /\ waiter' \in [Bundles -> Ptr]
    BY <1>1, <1>3 DEF TypeOK, Ptr
  <2>4. crs' \in [Bundles -> Seq(Crs)]
    BY <1>1, <1>3 DEF TypeOK
  <2>5. live' \subseteq Crs /\ done' \subseteq Crs /\ nb1' \subseteq Crs
    BY <1>1, <1>3 DEF TypeOK
  <2> QED BY <1>1, <1>3, <2>1, <2>2, <2>3, <2>4, <2>5 DEF TypeOK
<1>6. ReadyQueueSound'
  BY <1>1, <1>2 DEF IInv, ReadyQueueSound, Alive
<1>7. NoOrphans'
  <2>1. Range(<<>>) = {} /\ NoDup(<<>>)
    BY RangeSmall
  <2>2. Main \in live'
    BY <1>1, <1>2 DEF IInv, NoOrphans
  <2>3. ASSUME NEW x \in live' \ {Main} PROVE \E a \in Bundles : x \in Range(crs'[a])
    BY <1>1, <1>2, <1>4 DEF IInv, NoOrphans
  <2>4. ASSUME NEW a \in Bundles, a # b
        PROVE  /\ NoDup(crs'[a])
               /\ Range(crs'[a]) \subseteq live' \ {Main, owner'[a]}
               /\ ~(owner'[a] # NoCr) => crs'[a] = <<>>
    BY <1>1, <1>2, <1>4, <2>4 DEF IInv, NoOrphans, Open
  <2>5. \A a \in Bundles, z \in Bundles : z # a => Range(crs'[z]) \cap Range(crs'[a]) = {}
    BY <1>1, <1>4, <2>1 DEF IInv, NoOrphans
  <2> QED BY <1>4, <2>1, <2>2, <2>3, <2>4, <2>5 DEF NoOrphans, Open
<1>8. CloseCoherent'
  <2>1. done' \subseteq nb1' /\ nb1' \subseteq live'
    BY <1>1 DEF IInv, CloseCoherent
  <2>2. \A d \in Crs : d \in nb1' <=> closer'[d] # NoCr
    BY <1>1, <1>4 DEF IInv, CloseCoherent
  <2>3. ASSUME NEW d \in nb1'
        PROVE  call'[closer'[d]].op = "close" /\ call'[closer'[d]].cur = d
    <3>1. d \in Crs /\ d \in nb1 \ F /\ closer'[d] = closer[d] /\ closer[d] \in Crs \ {c}
      BY <1>1, <1>2, <1>3, <1>4 DEF TypeOK, Ptr, IInv, CloseCoherent
    <3> QED BY <1>1, <1>4, <3>1 DEF IInv, CloseCoherent
  <2>4. ASSUME NEW x \in Crs, call'[x].op = "close"
        PROVE  /\ owner'[call'[x].b] = x
               /\ crs'[call'[x].b] # <<>>
               /\ Head(crs'[call'[x].b]) = call'[x].cur
               /\ closer'[call'[x].cur] = x
    <3>1. x # c /\ call'[x] = call[x] /\ call[x].op = "close"
      BY <1>4, <2>4
    <3>2. call[x].b \in Bundles /\ call[x].cur \in Crs \ F
      BY <1>2, <1>3, <3>1, FrameTypes DEF TypeOK
    <3>3. owner[call[x].b] = x /\ crs[call[x].b] # <<>>
            /\ Head(crs[call[x].b]) = call[x].cur /\ closer[call[x].cur] = x
      BY <1>1, <3>1 DEF IInv, CloseCoherent
    <3> QED BY <1>1, <1>4, <3>1, <3>2, <3>3
  <2> QED BY <2>1, <2>2, <2>3, <2>4 DEF CloseCoherent
<1>9. ASSUME NEW x \in Crs, call'[x].op = "wait"
      PROVE  /\ x # c /\ call'[x] = call[x] /\ call[x].b \in Bundles \ {b}
             /\ owner[call[x].b] = x /\ waiter[call[x].b] = x
  <2>1. x # c /\ call'[x] = call[x] /\ call[x].op = "wait"
    BY <1>4, <1>9
  <2>2. call[x].b \in Bundles
    BY <1>3, <2>1, FrameTypes DEF TypeOK
  <2>3. owner[call[x].b] = x /\ waiter[call[x].b] = x
    BY <1>1, <2>1 DEF IInv, WaitCoherent
  <2> QED BY <1>1, <2>1, <2>2, <2>3
<1>10. WaitCoherent'
  <2>1. ASSUME NEW x \in Crs, call'[x].op = "wait"
        PROVE  owner'[call'[x].b] = x /\ waiter'[call'[x].b] = x
    BY <1>4, <1>9, <2>1
  <2>2. ASSUME NEW a \in Bundles, waiter'[a] # NoCr
        PROVE  call'[waiter'[a]].op = "wait" /\ call'[waiter'[a]].b = a
    <3>1. a # b /\ waiter'[a] = waiter[a] /\ waiter[a] \in Crs
      BY <1>3, <1>4, <2>2 DEF TypeOK, Ptr
    <3>2. call[waiter[a]].op = "wait" /\ call[waiter[a]].b = a
      BY <1>1, <2>2, <3>1 DEF IInv, WaitCoherent
    <3>3. owner[a] = waiter[a]
      BY <1>1, <3>1, <3>2 DEF IInv, WaitCoherent
    <3>4. waiter[a] # c
      <4>1. SUFFICES ASSUME waiter[a] = c PROVE FALSE
        OBVIOUS
      <4>2. call[c].op = "wait"
        BY <3>2, <4>1
      <4> QED BY <4>2, FrameTypes DEF CloseLoop
    <3> QED BY <1>4, <3>1, <3>2, <3>4
  <2>3. \A a \in Bundles : owner'[a] # NoCr => owner'[a] \in live' \ done'
    BY <1>1, <1>2, <1>4 DEF IInv, WaitCoherent
  <2> QED BY <2>1, <2>2, <2>3 DEF WaitCoherent
<1>11. \A x \in Crs : Suspended(x)' => x # c /\ Suspended(x)
  BY <1>1 DEF Suspended
<1>12. CanceledNeverBlocks'
  <2>1. ASSUME NEW x \in nb1' \ done', Suspended(x)' PROVE call'[x].op = "close"
    <3>1. x \in nb1 \ done /\ x \in Crs
      BY <1>1, <1>3 DEF TypeOK
    <3> QED BY <1>1, <1>4, <1>11, <2>1, <3>1 DEF IInv, CanceledNeverBlocks
  <2> QED BY <2>1 DEF CanceledNeverBlocks
<1>13. CloseNotForgotten'
  <2>1. ASSUME NEW x \in Crs, call'[x].op = "close", Suspended(x)'
        PROVE  call'[x].cur \notin done'
    BY <1>1, <1>4, <1>11, <2>1 DEF IInv, CloseNotForgotten
  <2> QED BY <1>8, <2>1 DEF CloseNotForgotten, CloseCoherent
<1>14. WaitNotForgotten'
  <2>1. ASSUME NEW x \in Crs, call'[x].op = "wait", Suspended(x)'
        PROVE  waiter'[call'[x].b] = x /\ crs'[call'[x].b] # <<>>
    BY <1>1, <1>4, <1>9, <1>11, <2>1 DEF IInv, WaitNotForgotten
  <2> QED BY <2>1 DEF WaitNotForgotten
<1>15. FreedOnlyFinished'
  <2>1. \A x \in Crs : call'[x].op = "close" => call'[x] = call[x] /\ call[x].cur \notin F
    BY <1>2, <1>4
  <2> QED BY <1>1, <2>1, NoAnswer
<1> QED BY <1>5, <1>6, <1>7, <1>8, <1>10, <1>12, <1>13, <1>14, <1>15 DEF IInv

\* bundle_close has another coroutine d to close.
LEMMA CloseNextIInv ==
  ASSUME IInv, NEW c \in Crs, NEW b \in Bundles, NEW q, NEW F, q # <<>>,
         CloseLoop(c, b, q, F), CloseRest(c, b, q, F)
  PROVE  IInv'
<1> DEFINE d == Head(q)
<1>1. /\ Alive /\ r = c /\ owner[b] = c
      /\ live' = live \ F /\ done' = done \ F
      /\ crs' = [crs EXCEPT ![b] = q]
      /\ nb1' = (nb1 \ F) \cup {d}
      /\ closer' = [x \in Crs |-> IF x = d THEN c ELSE IF x \in F THEN NoCr ELSE closer[x]]
      /\ call' = [call EXCEPT ![c] = InClose(b, d)]
      /\ r' = NoCr /\ ret' = NoResult
      /\ UNCHANGED <<owner, waiter, now, lastPoll>>
  BY DEF CloseRest, CloseLoop, CloserAfter, Suspend
<1>2. \/ d \notin Range(ready) /\ DoCancelOne(d, -1, "ECANCELED")
      \/ d \in Range(ready) /\ UNCHANGED <<ready, res, timers, tm, wq, abort>>
  BY DEF CloseRest, IsBlocked
<1>3. /\ q \in Seq(Crs) /\ NoDup(q)
      /\ Range(q) \cap F = {} /\ Range(crs[b]) = Range(q) \cup F
      /\ F \subseteq done /\ Main \notin F
  BY CloseLoopFacts
<1>4. /\ \A a \in Bundles \ {b} : Range(crs[a]) \cap F = {}
      /\ \A x \in Crs : call[x].op = "close" /\ x # c => call[x].cur \notin F
      /\ \A x \in nb1 \ F : closer[x] # c
      /\ Range(q) \subseteq live \ {Main, c}
      /\ d \in Range(q) /\ d \in Crs
  BY CloseLoopFacts
<1> HIDE DEF d
<1>5. TypeOK
  BY DEF IInv
<1>6. d \notin F /\ d # c /\ d \in live /\ d \in Range(crs[b])
  BY <1>3, <1>4
<1>7. \A x \in Crs \ {c} : call[x].op = "close" => call[x].b \in Bundles \ {b} /\ call[x].cur \in Crs /\ call[x].cur # d
  <2> SUFFICES ASSUME NEW x \in Crs \ {c}, call[x].op = "close"
               PROVE  call[x].b \in Bundles \ {b} /\ call[x].cur \in Crs /\ call[x].cur # d
    OBVIOUS
  <2>1. call[x].b \in Bundles /\ call[x].cur \in Crs
    BY <1>5, FrameTypes DEF TypeOK
  <2>2. owner[call[x].b] = x /\ crs[call[x].b] # <<>> /\ Head(crs[call[x].b]) = call[x].cur
    BY <1>1 DEF IInv, CloseCoherent
  <2>3. call[x].b # b
    BY <1>1, <2>2
  <2>4. call[x].cur \in Range(crs[call[x].b])
    BY <1>5, <2>1, <2>2, RangeTail DEF TypeOK
  <2>5. Range(crs[call[x].b]) \cap Range(crs[b]) = {}
    BY <1>1, <2>1, <2>3 DEF IInv, NoOrphans
  <2> QED BY <1>6, <2>1, <2>3, <2>4, <2>5
<1>8. d \notin nb1 /\ d \notin done
  <2>1. SUFFICES ASSUME d \in nb1 PROVE FALSE
    BY <1>1 DEF IInv, CloseCoherent
  <2>2. closer[d] \in Crs /\ call[closer[d]].op = "close" /\ call[closer[d]].cur = d
    BY <1>1, <1>5, <2>1 DEF IInv, CloseCoherent, TypeOK, Ptr
  <2> QED BY <1>4, <1>6, <1>7, <2>1, <2>2
<1>9. /\ \A x \in Crs \ {c} : call'[x] = call[x]
      /\ call'[c].op = "close" /\ call'[c].b = b /\ call'[c].cur = d
      /\ call'[c] = InClose(b, d)
      /\ crs'[b] = q /\ \A a \in Bundles \ {b} : crs'[a] = crs[a]
      /\ closer'[d] = c
      /\ \A x \in Crs \ F : x # d => closer'[x] = closer[x]
      /\ \A x \in Crs \cap F : closer'[x] = NoCr
  BY <1>1, <1>4, <1>5, <1>6, FrameTypes DEF TypeOK
<1>10. /\ ready' \in Seq(Crs)
       /\ res' \in [Crs -> Results]
       /\ timers' \in Seq(Crs)
       /\ tm' \in [Crs -> [at : Nat, id : Nat]]
       /\ wq' \in [Endpoints -> Seq(Crs)]
       /\ \/ abort' = "docancel"
          \/ /\ abort' = abort
             /\ Range(ready') = Range(ready) \cup {d}
             /\ NoDup(ready) => NoDup(ready')
             /\ Range(timers') \subseteq Range(timers)
             /\ d \notin Range(timers')
             /\ NoDup(timers) => NoDup(timers')
             /\ \A x \in Crs : res'[x] = res[x] \/ (x = d /\ res'[x] = Result(-1, "ECANCELED"))
  <2>1. CASE d \notin Range(ready) /\ DoCancelOne(d, -1, "ECANCELED")
    <3>1. -1 \in Int /\ "ECANCELED" \in Errors
      BY DEF Errors
    <3> QED BY <1>4, <1>5, <2>1, <3>1, DoCancelOneFacts
  <2>2. CASE d \in Range(ready) /\ UNCHANGED <<ready, res, timers, tm, wq, abort>>
    <3>1. d \notin Range(timers)
      BY <1>1, <2>2 DEF IInv, ReadyQueueSound
    <3> QED BY <1>5, <2>2, <3>1 DEF TypeOK
  <2> QED BY <1>2, <2>1, <2>2
<1>11. TypeOK'
  <2>1. closer' \in [Crs -> Ptr]
    BY <1>1, <1>5 DEF TypeOK, Ptr
  <2>2. call' \in [Crs -> Frames]
    BY <1>1, <1>4, <1>5, FrameTypes DEF TypeOK
  <2>3. crs' \in [Bundles -> Seq(Crs)]
    BY <1>1, <1>3, <1>5 DEF TypeOK
  <2>4. live' \subseteq Crs /\ done' \subseteq Crs /\ nb1' \subseteq Crs
    BY <1>1, <1>4, <1>5 DEF TypeOK
  <2>5. r' \in Ptr /\ ret' \in Results /\ now' \in Nat /\ lastPoll' \in Nat
          /\ owner' \in [Bundles -> Ptr] /\ waiter' \in [Bundles -> Ptr]
    BY <1>1, <1>5, ResultTypes DEF TypeOK, Ptr
  <2>6. abort' \in {"none", "docancel", "bundle_wait", "cr_close", "pollset"}
    BY <1>5, <1>10 DEF TypeOK
  <2> QED BY <1>10, <2>1, <2>2, <2>3, <2>4, <2>5, <2>6 DEF TypeOK
<1>12. CASE abort' = "docancel"
  BY <1>11, <1>12, DeadIInv DEF Alive
<1>13. CASE abort' # "docancel"
  <2>1. /\ Range(ready') = Range(ready) \cup {d}
        /\ NoDup(ready) => NoDup(ready')
        /\ Range(timers') \subseteq Range(timers)
        /\ d \notin Range(timers')
        /\ NoDup(timers) => NoDup(timers')
        /\ \A x \in Crs : res'[x] = res[x] \/ (x = d /\ res'[x] = Result(-1, "ECANCELED"))
    BY <1>10, <1>13
  <2>2. NoCr \notin Range(ready') /\ NoCr \notin Range(timers')
    BY <1>11, SchedAssumption, RangeDef DEF TypeOK
  <2>3. ReadyQueueSound'
    BY <1>1, <1>3, <1>6, <1>8, <2>1, <2>2 DEF IInv, ReadyQueueSound
  <2>4. NoOrphans'
    <3>1. Main \in live'
      BY <1>1, <1>3 DEF IInv, NoOrphans
    <3>2. ASSUME NEW x \in live' \ {Main} PROVE \E a \in Bundles : x \in Range(crs'[a])
      BY <1>1, <1>3, <1>9 DEF IInv, NoOrphans
    <3>3. ASSUME NEW a \in Bundles, a # b
          PROVE  /\ NoDup(crs'[a])
                 /\ Range(crs'[a]) \subseteq live' \ {Main, owner'[a]}
                 /\ ~(owner'[a] # NoCr) => crs'[a] = <<>>
      BY <1>1, <1>4, <1>9, <3>3 DEF IInv, NoOrphans, Open
    <3>4. /\ NoDup(crs'[b]) /\ owner'[b] # NoCr
          /\ Range(crs'[b]) \subseteq live' \ {Main, owner'[b]}
      BY <1>1, <1>3, <1>4, <1>9, SchedAssumption
    <3>5. \A a \in Bundles, z \in Bundles : z # a => Range(crs'[z]) \cap Range(crs'[a]) = {}
      BY <1>1, <1>3, <1>9 DEF IInv, NoOrphans
    <3> QED BY <3>1, <3>2, <3>3, <3>4, <3>5 DEF NoOrphans, Open
  <2>5. CloseCoherent'
    <3>1. done' \subseteq nb1' /\ nb1' \subseteq live'
      BY <1>1, <1>6 DEF IInv, CloseCoherent
    <3>2. \A x \in Crs : x \in nb1' <=> closer'[x] # NoCr
      BY <1>1, <1>6, <1>9, SchedAssumption DEF IInv, CloseCoherent
    <3>3. ASSUME NEW x \in nb1'
          PROVE  call'[closer'[x]].op = "close" /\ call'[closer'[x]].cur = x
      <4>1. CASE x = d
        BY <1>9, <4>1
      <4>2. CASE x # d
        <5>1. x \in Crs /\ x \in nb1 \ F /\ closer'[x] = closer[x] /\ closer[x] \in Crs \ {c}
          BY <1>1, <1>4, <1>5, <1>9, <4>2 DEF TypeOK, Ptr, IInv, CloseCoherent
        <5> QED BY <1>1, <1>9, <5>1 DEF IInv, CloseCoherent
      <4> QED BY <4>1, <4>2
    <3>4. ASSUME NEW x \in Crs, call'[x].op = "close"
          PROVE  /\ owner'[call'[x].b] = x
                 /\ crs'[call'[x].b] # <<>>
                 /\ Head(crs'[call'[x].b]) = call'[x].cur
                 /\ closer'[call'[x].cur] = x
      <4>1. CASE x = c
        BY <1>1, <1>9, <4>1 DEF d
      <4>2. CASE x # c
        <5>1. call'[x] = call[x] /\ call[x].op = "close"
          BY <1>9, <3>4, <4>2
        <5>2. call[x].b \in Bundles \ {b} /\ call[x].cur \in Crs \ F /\ call[x].cur # d
          BY <1>4, <1>7, <4>2, <5>1
        <5>3. owner[call[x].b] = x /\ crs[call[x].b] # <<>>
                /\ Head(crs[call[x].b]) = call[x].cur /\ closer[call[x].cur] = x
          BY <1>1, <5>1 DEF IInv, CloseCoherent
        <5> QED BY <1>1, <1>9, <5>1, <5>2, <5>3
      <4> QED BY <4>1, <4>2
    <3> QED BY <3>1, <3>2, <3>3, <3>4 DEF CloseCoherent
  <2>6. ASSUME NEW x \in Crs, call'[x].op = "wait"
        PROVE  /\ x # c /\ call'[x] = call[x] /\ call[x].b \in Bundles \ {b}
               /\ owner[call[x].b] = x /\ waiter[call[x].b] = x
    <3>1. x # c /\ call'[x] = call[x] /\ call[x].op = "wait"
      BY <1>9, <2>6
    <3>2. call[x].b \in Bundles
      BY <1>5, <3>1, FrameTypes DEF TypeOK
    <3>3. owner[call[x].b] = x /\ waiter[call[x].b] = x
      BY <1>1, <3>1 DEF IInv, WaitCoherent
    <3> QED BY <1>1, <3>1, <3>2, <3>3
  <2>7. WaitCoherent'
    <3>1. \A x \in Crs : call'[x].op = "wait" => owner'[call'[x].b] = x /\ waiter'[call'[x].b] = x
      BY <1>1, <2>6
    <3>2. ASSUME NEW a \in Bundles, waiter'[a] # NoCr
          PROVE  call'[waiter'[a]].op = "wait" /\ call'[waiter'[a]].b = a
      <4>1. waiter'[a] = waiter[a] /\ waiter[a] \in Crs
        BY <1>1, <1>5, <3>2 DEF TypeOK, Ptr
      <4>2. call[waiter[a]].op = "wait" /\ call[waiter[a]].b = a
        BY <1>1, <3>2, <4>1 DEF IInv, WaitCoherent
      <4>3. ASSUME waiter[a] = c PROVE FALSE
        <5>1. call[c].op = "wait"
          BY <4>2, <4>3
        <5> QED BY <5>1, FrameTypes DEF CloseLoop
      <4> QED BY <1>9, <4>1, <4>2, <4>3
    <3>3. \A a \in Bundles : owner'[a] # NoCr => owner'[a] \in live' \ done'
      BY <1>1, <1>3 DEF IInv, WaitCoherent
    <3> QED BY <3>1, <3>2, <3>3 DEF WaitCoherent
  <2>8. \A x \in Crs : Suspended(x)' => x # d /\ (x # c => Suspended(x))
    BY <1>1, <2>1 DEF Suspended
  <2>9. CanceledNeverBlocks'
    <3>1. ASSUME NEW x \in nb1' \ done', Suspended(x)' PROVE call'[x].op = "close"
      <4>1. x \in Crs /\ x # d
        BY <1>1, <1>4, <1>5, <2>8, <3>1 DEF TypeOK
      <4>2. x \in nb1 \ done
        BY <1>1, <4>1
      <4> QED BY <1>1, <1>9, <2>8, <3>1, <4>1, <4>2 DEF IInv, CanceledNeverBlocks
    <3> QED BY <3>1 DEF CanceledNeverBlocks
  <2>10. CloseNotForgotten'
    <3>1. ASSUME NEW x \in Crs, call'[x].op = "close", Suspended(x)'
          PROVE  call'[x].cur \notin done'
      BY <1>1, <1>8, <1>9, <2>8, <3>1 DEF IInv, CloseNotForgotten
    <3> QED BY <2>5, <3>1, <1>1, <1>13 DEF CloseNotForgotten, CloseCoherent
  <2>11. WaitNotForgotten'
    <3>1. ASSUME NEW x \in Crs, call'[x].op = "wait", Suspended(x)'
          PROVE  waiter'[call'[x].b] = x /\ crs'[call'[x].b] # <<>>
      BY <1>1, <1>9, <2>6, <2>8, <3>1 DEF IInv, WaitNotForgotten
    <3> QED BY <3>1 DEF WaitNotForgotten
  <2>12. FreedOnlyFinished'
    <3>1. c \notin Range(ready')
      BY <1>1, <1>6, <2>1 DEF IInv, ReadyQueueSound
    <3>2. ASSUME NEW x \in Crs, call'[x].op = "close", x \in Range(ready'),
                 res'[x] = Result(-1, "0")
          PROVE  call'[x].cur \in done'
      <4>1. x # c /\ call'[x] = call[x] /\ call[x].cur \notin F
        BY <1>4, <1>9, <3>1, <3>2
      <4>2. res[x] = Result(-1, "0")
        BY <2>1, <3>2, Answers
      <4>3. CASE x \in Range(ready)
        BY <1>1, <3>2, <4>1, <4>2, <4>3 DEF IInv, FreedOnlyFinished
      <4>4. CASE x \notin Range(ready)
        <5>1. x = d /\ DoCancelOne(d, -1, "ECANCELED")
          BY <1>2, <2>1, <3>2, <4>4
        <5>2. res'[d] = Result(-1, "ECANCELED")
          BY <1>4, <1>5, <1>13, <5>1, DoCancelOneFacts DEF Errors
        <5> QED BY <3>2, <5>1, <5>2, Answers
      <4> QED BY <4>3, <4>4
    <3> QED BY <1>1, <3>2, SchedAssumption DEF FreedOnlyFinished
  <2> QED BY <1>11, <2>3, <2>4, <2>5, <2>7, <2>9, <2>10, <2>11, <2>12 DEF IInv
<1> QED BY <1>12, <1>13

\* dill_hclose of a bundle, up to its first dill_wait.
LEMMA HcloseIInv ==
  ASSUME IInv, NEW c \in Crs, NEW b \in Bundles, Hclose(c, b) PROVE IInv'
<1> DEFINE q == crs[b]
<1>1. CloseLoop(c, b, q, {}) /\ CloseRest(c, b, q, {})
  BY DEF Hclose, User, Running, CloseLoop
<1> HIDE DEF q
<1>2. CASE q = <<>>
  <2>1. CloseLoop(c, b, <<>>, {}) /\ CloseRest(c, b, <<>>, {})
    BY <1>1, <1>2
  <2> QED BY <2>1, CloseEndIInv
<1>3. CASE q # <<>>
  BY <1>1, <1>3, CloseNextIInv
<1> QED BY <1>2, <1>3

\* dill_hclose goes on after a dill_wait.
LEMMA HcloseResumeIInv ==
  ASSUME IInv, NEW c \in Crs, HcloseResume(c) PROVE IInv'
<1>1. Alive /\ r = c /\ call[c].op = "close"
  BY DEF HcloseResume, Running
<1>2. CASE ret # Result(-1, "0")
  <2>1. abort' = "cr_close" /\ UNCHANGED <<r, ret, ready, res, timers, tm, wq, nb1,
                                          now, lastPoll>> /\ UNCHANGED crVars
    BY <1>2 DEF HcloseResume
  <2>2. TypeOK'
    BY <2>1 DEF IInv, TypeOK, crVars
  <2> QED BY <2>1, <2>2, DeadIInv DEF Alive
<1>3. CASE ret = Result(-1, "0")
  <2> DEFINE b == call[c].b
             q == Tail(crs[b])
             F == {call[c].cur}
  <2>1. b \in Bundles /\ owner[b] = c
    BY <1>1, FrameTypes DEF IInv, TypeOK, CloseCoherent
  <2>2. call[c].cur \in done
    BY <1>1, <1>3 DEF IInv, FreedOnlyFinished
  <2>3. CloseRest(c, b, q, F)
    BY <1>3 DEF HcloseResume, RestOf
  <2>4. CloseLoop(c, b, q, F)
    BY <1>1, <2>1, <2>2 DEF CloseLoop
  <2> HIDE DEF b, q, F
  <2>5. CASE q = <<>>
    <3>1. CloseLoop(c, b, <<>>, F) /\ CloseRest(c, b, <<>>, F)
      BY <2>3, <2>4, <2>5
    <3> QED BY <2>1, <3>1, CloseEndIInv
  <2>6. CASE q # <<>>
    BY <2>1, <2>3, <2>4, <2>6, CloseNextIInv
  <2> QED BY <2>5, <2>6
<1> QED BY <1>2, <1>3

\* The bundle a coroutine belongs to.
LEMMA BundleOfFacts ==
  ASSUME IInv, Alive, NEW c \in live \ {Main}
  PROVE  BundleOf(c) \in Bundles /\ c \in Range(crs[BundleOf(c)])
<1>1. \E b \in Bundles : c \in Range(crs[b])
  BY DEF IInv, NoOrphans
<1> QED BY <1>1 DEF BundleOf

\* dill_epilogue of a coroutine that is being closed: its closer is woken up.
LEMMA ReturnClosedIInv ==
  ASSUME IInv, NEW c \in Crs, Return(c), c \in nb1 PROVE IInv'
<1> DEFINE k == closer[c]
           f == [x \in Crs |-> Result(IF x = closer[c] THEN -1 ELSE 0, "0")]
           q == <<k>>
<1>1. /\ Alive /\ r = c /\ call[c] = Idle /\ c # Main
      /\ \A b \in Bundles : owner[b] # c
      /\ r' = NoCr /\ ret' = NoResult
      /\ UNCHANGED <<nb1, now, lastPoll, closer, call, owner, waiter>>
  BY DEF Return, User, Running, Suspend
<1>2. TypeOK /\ c \in live \ done
  BY <1>1, SchedAssumption DEF IInv, ReadyQueueSound
<1>3. k \in Crs /\ call[k].op = "close" /\ call[k].cur = c /\ k # NoCr
  BY <1>1, <1>2 DEF IInv, CloseCoherent, TypeOK, Ptr
<1>4. k # c
  BY <1>1, <1>3, FrameTypes
<1>5. DoCancel(q, f)
  BY <1>3 DEF Return
<1>6. done' = done \cup {c} /\ live' = live /\ crs' = crs
  BY DEF Return
<1>7. q \in Seq(Crs) /\ Range(q) = {k} /\ NoDup(q)
  BY <1>3, RangeSmall
<1>8. f \in [Crs -> Results]
  BY ResultTypes
<1> HIDE DEF q, f, k
<1>9. /\ ready' \in Seq(Crs)
      /\ res' \in [Crs -> Results]
      /\ timers' \in Seq(Crs)
      /\ tm' \in [Crs -> [at : Nat, id : Nat]]
      /\ wq' \in [Endpoints -> Seq(Crs)]
      /\ \/ abort' = "docancel"
         \/ /\ abort' = abort
            /\ Range(ready') = Range(ready) \cup {k}
            /\ NoDup(ready) => NoDup(ready')
            /\ Range(timers') = Range(timers) \ {k}
            /\ NoDup(timers) => NoDup(timers')
            /\ \A x \in Crs : res'[x] = IF x = k THEN f[x] ELSE res[x]
  BY <1>2, <1>5, <1>7, <1>8, DoCancelFacts
<1>10. TypeOK'
  <2>1. r' \in Ptr /\ ret' \in Results /\ done' \subseteq Crs
          /\ abort' \in {"none", "docancel", "bundle_wait", "cr_close", "pollset"}
    BY <1>1, <1>2, <1>6, <1>9, ResultTypes DEF TypeOK, Ptr
  <2> QED BY <1>1, <1>2, <1>6, <1>9, <2>1 DEF TypeOK
<1>11. CASE abort' = "docancel"
  BY <1>10, <1>11, DeadIInv DEF Alive
<1>12. CASE abort' # "docancel"
  <2>1. /\ Range(ready') = Range(ready) \cup {k}
        /\ NoDup(ready) => NoDup(ready')
        /\ Range(timers') = Range(timers) \ {k}
        /\ NoDup(timers) => NoDup(timers')
        /\ \A x \in Crs : x # k => res'[x] = res[x]
        /\ abort' = abort
    BY <1>9, <1>12
  <2>2. k \in live \ done
    <3>1. call[k].b \in Bundles /\ owner[call[k].b] = k
      BY <1>1, <1>2, <1>3, FrameTypes DEF IInv, CloseCoherent, TypeOK
    <3> QED BY <1>1, <1>3, <3>1 DEF IInv, WaitCoherent
  <2>3. NoCr \notin Range(ready') /\ NoCr \notin Range(timers')
    BY <1>10, SchedAssumption, RangeDef DEF TypeOK
  <2>4. ReadyQueueSound'
    BY <1>1, <1>4, <1>6, <2>1, <2>2, <2>3 DEF IInv, ReadyQueueSound
  <2>5. NoOrphans'
    BY <1>1, <1>6 DEF IInv, NoOrphans, Open
  <2>6. CloseCoherent'
    BY <1>1, <1>6 DEF IInv, CloseCoherent
  <2>7. WaitCoherent'
    BY <1>1, <1>6 DEF IInv, WaitCoherent
  <2>8. \A x \in Crs : Suspended(x)' => x # k /\ (x # c => Suspended(x))
    BY <1>1, <2>1 DEF Suspended
  <2>9. CanceledNeverBlocks'
    BY <1>1, <1>2, <1>6, <2>8 DEF IInv, CanceledNeverBlocks, TypeOK
  <2>10. CloseNotForgotten'
    <3>1. ASSUME NEW x \in Crs, call[x].op = "close", Suspended(x)'
          PROVE  call[x].cur \notin done' /\ closer[call[x].cur] = x
      <4>1. x # c
        BY <1>1, <3>1, FrameTypes
      <4>2. call[x].cur \notin done /\ closer[call[x].cur] = x
        BY <1>1, <2>8, <3>1, <4>1 DEF IInv, CloseNotForgotten
      <4> QED BY <1>6, <2>8, <3>1, <4>2 DEF k
    <3> QED BY <1>1, <3>1 DEF CloseNotForgotten
  <2>11. WaitNotForgotten'
    <3>1. ASSUME NEW x \in Crs, call[x].op = "wait", Suspended(x)'
          PROVE  waiter[call[x].b] = x /\ crs[call[x].b] # <<>>
      <4>1. x # c
        BY <1>1, <3>1, FrameTypes
      <4> QED BY <1>1, <2>8, <3>1, <4>1 DEF IInv, WaitNotForgotten
    <3> QED BY <1>1, <1>6, <3>1 DEF WaitNotForgotten
  <2>12. FreedOnlyFinished'
    <3>1. ASSUME NEW x \in Crs, call[x].op = "close", x \in Range(ready'),
                 res'[x] = Result(-1, "0")
          PROVE  call[x].cur \in done'
      <4>1. CASE x = k
        BY <1>3, <1>6, <4>1
      <4>2. CASE x # k
        BY <1>1, <1>6, <2>1, <3>1, <4>2 DEF IInv, FreedOnlyFinished
      <4> QED BY <4>1, <4>2
    <3> QED BY <1>1, <3>1, SchedAssumption DEF FreedOnlyFinished
  <2> QED BY <1>10, <2>4, <2>5, <2>6, <2>7, <2>9, <2>10, <2>11, <2>12 DEF IInv
<1> QED BY <1>11, <1>12

\* dill_epilogue of a coroutine that nobody closes: it leaves its bundle and,
\* if it was the last one there, wakes up the coroutine in bundle_wait().
LEMMA ReturnFreedIInv ==
  ASSUME IInv, NEW c \in Crs, Return(c), c \notin nb1 PROVE IInv'
<1> DEFINE b == BundleOf(c)
           f == [x \in Crs |-> Result(IF x = closer[c] THEN -1 ELSE 0, "0")]
           W == IF crs[b] = <<c>> /\ waiter[b] # NoCr THEN {waiter[b]} ELSE {}
<1>1. /\ Alive /\ r = c /\ call[c] = Idle /\ c # Main
      /\ \A a \in Bundles : owner[a] # c
      /\ r' = NoCr /\ ret' = NoResult
      /\ UNCHANGED <<nb1, now, lastPoll, closer, call, owner, waiter>>
  BY DEF Return, User, Running, Suspend
<1>2. TypeOK /\ c \in live \ done
  BY <1>1, SchedAssumption DEF IInv, ReadyQueueSound
<1>3. closer[c] = NoCr
  BY <1>1 DEF IInv, CloseCoherent
<1>4. b \in Bundles /\ c \in Range(crs[b]) /\ crs[b] \in Seq(Crs) /\ NoDup(crs[b])
  BY <1>1, <1>2, BundleOfFacts DEF IInv, TypeOK, NoOrphans
<1>5. done' = done /\ live' = live \ {c} /\ crs' = [crs EXCEPT ![b] = Without(@, {c})]
  BY DEF Return
<1>6. \E q \in Seq(Crs) : DoCancel(q, f) /\ Range(q) = W /\ NoDup(q)
  <2> DEFINE v == waiter[b]
             s == <<v>>
             e == <<>>
  <2>1. CASE crs[b] = <<c>> /\ v # NoCr
    <3>1. DoCancel(<<>> \o s, f)
      BY <1>3, <2>1 DEF Return, IsLast
    <3>2. v \in Crs /\ W = {v}
      BY <1>2, <1>4, <2>1 DEF TypeOK, Ptr
    <3>3. s \in Seq(Crs) /\ Range(s) = {v} /\ NoDup(s) /\ <<>> \o s = s
      BY <3>2, RangeSmall
    <3> HIDE DEF s, v, f, W
    <3> QED BY <3>1, <3>2, <3>3
  <2>2. CASE ~(crs[b] = <<c>> /\ v # NoCr)
    <3>1. DoCancel(<<>> \o e, f)
      BY <1>3, <2>2 DEF Return, IsLast
    <3>2. W = {}
      BY <2>2
    <3>3. e \in Seq(Crs) /\ Range(e) = {} /\ NoDup(e) /\ <<>> \o e = e
      <4>1. Range(<<>>) = {} /\ NoDup(<<>>)
        BY SchedAssumption, RangeSmall
      <4>2. <<>> \in Seq(Crs) /\ <<>> \o <<>> = <<>>
        OBVIOUS
      <4> QED BY <4>1, <4>2
    <3> HIDE DEF e, f, W
    <3> QED BY <3>1, <3>2, <3>3
  <2> QED BY <2>1, <2>2
<1>7. f \in [Crs -> Results] /\ \A x \in Crs : f[x] = Result(0, "0")
  BY <1>3, ResultTypes, SchedAssumption
<1> HIDE DEF f
<1>8. /\ ready' \in Seq(Crs)
      /\ res' \in [Crs -> Results]
      /\ timers' \in Seq(Crs)
      /\ tm' \in [Crs -> [at : Nat, id : Nat]]
      /\ wq' \in [Endpoints -> Seq(Crs)]
      /\ \/ abort' = "docancel"
         \/ /\ abort' = abort
            /\ Range(ready') = Range(ready) \cup W
            /\ NoDup(ready) => NoDup(ready')
            /\ Range(timers') = Range(timers) \ W
            /\ NoDup(timers) => NoDup(timers')
            /\ \A x \in Crs : res'[x] = IF x \in W THEN f[x] ELSE res[x]
  <2> HIDE DEF W
  <2> QED BY <1>2, <1>6, <1>7, DoCancelFacts
<1>9. \A w \in W : w \in Crs /\ w # c /\ call[w].op = "wait" /\ w \in live \ done
  <2> SUFFICES ASSUME NEW w \in W
               PROVE  w \in Crs /\ w # c /\ call[w].op = "wait" /\ w \in live \ done
    OBVIOUS
  <2>1. w = waiter[b] /\ w # NoCr /\ w \in Crs
    BY <1>2, <1>4 DEF TypeOK, Ptr
  <2>2. call[w].op = "wait" /\ call[w].b = b
    BY <1>1, <1>4, <2>1 DEF IInv, WaitCoherent
  <2>3. owner[b] = w
    BY <1>1, <2>1, <2>2 DEF IInv, WaitCoherent
  <2> QED BY <1>1, <1>4, <2>1, <2>2, <2>3 DEF IInv, WaitCoherent
<1>10. /\ crs'[b] \in Seq(Crs) /\ NoDup(crs'[b])
       /\ Range(crs'[b]) = Range(crs[b]) \ {c}
       /\ Head(crs[b]) # c => crs'[b] # <<>> /\ Head(crs'[b]) = Head(crs[b])
       /\ crs' \in [Bundles -> Seq(Crs)]
       /\ \A a \in Bundles \ {b} : crs'[a] = crs[a]
  <2> DEFINE g == crs[b]
             h == Without(g, {c})
  <2>1. g \in Seq(Crs) /\ NoDup(g) /\ g # <<>>
    BY <1>4, RangeDef
  <2>2. /\ h \in Seq(Crs) /\ NoDup(h) /\ Range(h) = Range(g) \ {c}
        /\ Head(g) # c => h # <<>> /\ Head(h) = Head(g)
    <3> HIDE DEF g
    <3>1. Head(g) # c => Head(g) \notin {c}
      OBVIOUS
    <3> QED BY <2>1, <3>1, WithoutFacts
  <2>3. crs'[b] = h /\ crs' \in [Bundles -> Seq(Crs)] /\ \A a \in Bundles \ {b} : crs'[a] = crs[a]
    BY <1>2, <1>4, <1>5, <2>2 DEF TypeOK
  <2> HIDE DEF h
  <2> QED BY <2>2, <2>3
<1>11. TypeOK'
  <2>1. r' \in Ptr /\ ret' \in Results /\ live' \subseteq Crs /\ done' \subseteq Crs
          /\ abort' \in {"none", "docancel", "bundle_wait", "cr_close", "pollset"}
    BY <1>1, <1>2, <1>5, <1>8, ResultTypes DEF TypeOK, Ptr
  <2> QED BY <1>1, <1>2, <1>8, <1>10, <2>1 DEF TypeOK
<1>12. CASE abort' = "docancel"
  BY <1>11, <1>12, DeadIInv DEF Alive
<1>13. CASE abort' # "docancel"
  <2>1. /\ Range(ready') = Range(ready) \cup W
        /\ NoDup(ready) => NoDup(ready')
        /\ Range(timers') = Range(timers) \ W
        /\ NoDup(timers) => NoDup(timers')
        /\ \A x \in Crs : x \notin W => res'[x] = res[x]
    BY <1>8, <1>13
  <2>2. NoCr \notin Range(ready') /\ NoCr \notin Range(timers')
    BY <1>11, SchedAssumption, RangeDef DEF TypeOK
  <2>3. W # {} <=> crs[b] = <<c>> /\ waiter[b] # NoCr
    OBVIOUS
  <2>4. W # {} => waiter[b] \in W
    OBVIOUS
  <2> HIDE DEF W, b
  <2>5. ReadyQueueSound'
    BY <1>1, <1>5, <1>9, <2>1, <2>2 DEF IInv, ReadyQueueSound
  <2>6. NoOrphans'
    <3>1. Main \in live'
      BY <1>1, <1>5 DEF IInv, NoOrphans
    <3>2. ASSUME NEW x \in live' \ {Main} PROVE \E a \in Bundles : x \in Range(crs'[a])
      <4>1. PICK a \in Bundles : x \in Range(crs[a])
        BY <1>1, <1>5 DEF IInv, NoOrphans
      <4>2. x # c
        BY <1>5
      <4> QED BY <1>10, <4>1, <4>2
    <3>3. ASSUME NEW a \in Bundles
          PROVE  /\ NoDup(crs'[a])
                 /\ Range(crs'[a]) \subseteq Range(crs[a]) \ {c}
                 /\ ~(owner'[a] # NoCr) => crs'[a] = <<>>
      <4>1. CASE a = b
        BY <1>1, <1>4, <1>10, <4>1, RangeSmall DEF IInv, NoOrphans, Open
      <4>2. CASE a # b
        <5>1. crs'[a] = crs[a] /\ c \notin Range(crs[a])
          BY <1>1, <1>4, <1>10, <4>2 DEF IInv, NoOrphans
        <5> QED BY <1>1, <5>1 DEF IInv, NoOrphans, Open
      <4> QED BY <4>1, <4>2
    <3>4. \A a \in Bundles : Range(crs'[a]) \subseteq live' \ {Main, owner'[a]}
      BY <1>1, <1>5, <3>3 DEF IInv, NoOrphans
    <3>5. \A a \in Bundles, z \in Bundles : z # a => Range(crs'[z]) \cap Range(crs'[a]) = {}
      BY <1>1, <3>3 DEF IInv, NoOrphans
    <3> QED BY <3>1, <3>2, <3>3, <3>4, <3>5 DEF NoOrphans, Open
  <2>7. CloseCoherent'
    <3>1. nb1' \subseteq live' /\ done' \subseteq nb1'
      BY <1>1, <1>5 DEF IInv, CloseCoherent
    <3>2. ASSUME NEW x \in Crs, call[x].op = "close"
          PROVE  /\ owner[call[x].b] = x
                 /\ crs'[call[x].b] # <<>>
                 /\ Head(crs'[call[x].b]) = call[x].cur
                 /\ closer[call[x].cur] = x
      <4>1. call[x].b \in Bundles /\ call[x].cur \in Crs
        BY <1>2, <3>2, FrameTypes DEF TypeOK
      <4>2. owner[call[x].b] = x /\ crs[call[x].b] # <<>>
              /\ Head(crs[call[x].b]) = call[x].cur /\ closer[call[x].cur] = x
        BY <1>1, <3>2 DEF IInv, CloseCoherent
      <4>3. call[x].cur # c
        BY <1>3, <4>2, SchedAssumption
      <4> QED BY <1>10, <4>1, <4>2, <4>3
    <3> QED BY <1>1, <3>1, <3>2 DEF IInv, CloseCoherent
  <2>8. WaitCoherent'
    BY <1>1, <1>5 DEF IInv, WaitCoherent
  <2>9. \A x \in Crs : Suspended(x)' => x \notin W /\ (x # c => Suspended(x))
    BY <1>1, <2>1 DEF Suspended
  <2>10. CanceledNeverBlocks'
    BY <1>1, <1>2, <1>5, <2>9 DEF IInv, CanceledNeverBlocks, TypeOK
  <2>11. CloseNotForgotten'
    <3>1. ASSUME NEW x \in Crs, call[x].op = "close", Suspended(x)'
          PROVE  call[x].cur \notin done /\ closer[call[x].cur] = x
      <4>1. x # c
        BY <1>1, <3>1, FrameTypes
      <4> QED BY <1>1, <2>9, <3>1, <4>1 DEF IInv, CloseNotForgotten
    <3> QED BY <1>1, <1>5, <3>1 DEF CloseNotForgotten
  <2>12. WaitNotForgotten'
    <3>1. ASSUME NEW x \in Crs, call[x].op = "wait", Suspended(x)'
          PROVE  waiter[call[x].b] = x /\ crs'[call[x].b] # <<>>
      <4>1. x # c
        BY <1>1, <3>1, FrameTypes
      <4>2. call[x].b \in Bundles /\ waiter[call[x].b] = x /\ crs[call[x].b] # <<>>
        BY <1>1, <1>2, <2>9, <3>1, <4>1, FrameTypes DEF IInv, WaitNotForgotten, TypeOK
      <4>3. CASE call[x].b # b
        BY <1>10, <4>2, <4>3
      <4>4. CASE call[x].b = b
        <5>1. waiter[b] = x /\ x # NoCr /\ x \notin W
          BY <2>9, <3>1, <4>2, <4>4, SchedAssumption
        <5>2. crs[b] # <<c>>
          BY <2>3, <2>4, <5>1
        <5>3. Range(crs[b]) # {c}
          BY <1>4, <5>2, OneItem
        <5>4. Range(crs'[b]) # {}
          BY <1>4, <1>10, <5>3
        <5>5. crs'[b] # <<>>
          BY <5>4, RangeSmall
        <5> QED BY <4>2, <4>4, <5>5
      <4> QED BY <4>3, <4>4
    <3> QED BY <1>1, <3>1 DEF WaitNotForgotten
  <2>13. FreedOnlyFinished'
    <3>1. \A x \in Crs : call'[x].op = "close" => x \notin W
      BY <1>1, <1>9
    <3> QED BY <1>1, <1>5, <2>1, <3>1, NoAnswer, SchedAssumption
  <2> QED BY <1>11, <2>5, <2>6, <2>7, <2>8, <2>10, <2>11, <2>12, <2>13 DEF IInv
<1> QED BY <1>12, <1>13

-----------------------------------------------------------------------------
(***************************************************************************)
(* The theorems.                                                           *)
(***************************************************************************)

\* IInv is inductive: one case per action.
LEMMA NextIInv == IInv /\ [Next]_vars => IInv'
<1> SUFFICES ASSUME IInv, [Next]_vars PROVE IInv'
  OBVIOUS
<1>1. CASE UNCHANGED vars
  <2>1. UNCHANGED <<r, ret, ready, res, timers, tm, wq, nb1, now, lastPoll, abort,
                    live, done, closer, call, owner, crs, waiter>>
    BY <1>1 DEF vars, schedVars, crVars
  <2> QED BY <2>1 DEF IInv, TypeOK, ReadyQueueSound, NoOrphans, CloseCoherent,
     WaitCoherent, CanceledNeverBlocks, CloseNotForgotten, WaitNotForgotten,
     FreedOnlyFinished, Alive, Suspended, Open
<1>2. CASE Kernel
  <2>1. CASE RunReady /\ UNCHANGED crVars
    BY <2>1, RunReadyIInv
  <2>2. CASE PollAndRun /\ UNCHANGED crVars
    BY <2>2, PollAndRunIInv
  <2>3. CASE (Tick \/ Crashed) /\ UNCHANGED crVars
    BY <2>3, TickIInv
  <2> QED BY <1>2, <2>1, <2>2, <2>3 DEF Kernel
<1>3. ASSUME NEW c \in Crs, UserStep(c) PROVE IInv'
  <2>1. ASSUME NEW b \in Bundles, Bundle(c, b) PROVE IInv'
    BY <2>1, BundleIInv
  <2>2. ASSUME NEW b \in Bundles, NEW d \in Crs, Go(c, b, d) \/ BundleGo(c, b, d)
        PROVE  IInv'
    BY <2>2, GoIInv
  <2>3. CASE Yield(c)
    BY <2>3, YieldIInv
  <2>4. ASSUME NEW delay \in SleepDelays, Msleep(c, delay) PROVE IInv'
    BY <2>4, MsleepIInv
  <2>5. ASSUME NEW b \in Bundles, NEW delay \in WaitDelays, BundleWait(c, b, delay)
        PROVE  IInv'
    BY <2>5, BundleWaitIInv
  <2>6. CASE BundleWaitReturn(c)
    BY <2>6, BundleWaitReturnIInv
  <2>7. ASSUME NEW b \in Bundles, Hclose(c, b) PROVE IInv'
    BY <2>7, HcloseIInv
  <2>8. CASE HcloseResume(c)
    BY <2>8, HcloseResumeIInv
  <2>9. CASE Return(c)
    BY <2>9, ReturnClosedIInv, ReturnFreedIInv
  <2> QED BY <1>3, <2>1, <2>2, <2>3, <2>4, <2>5, <2>6, <2>7, <2>8, <2>9 DEF UserStep
<1> QED BY <1>1, <1>2, <1>3 DEF Next

\* The inductive invariant of coroutines and bundles holds in every state of
\* every program of structured concurrency, however deep its bundles nest.
THEOREM Invariance == Spec => []IInv
BY InitIInv, NextIInv, PTL DEF Spec

\* Every variable keeps its type.
THEOREM TypeCorrect == Spec => []TypeOK
<1>1. IInv => TypeOK
  BY DEF IInv
<1> QED BY <1>1, Invariance, PTL

\* dill_resume and dill_docancel never link a coroutine twice, nor one that is
\* dead or finished.
THEOREM ReadyQueue == Spec => []ReadyQueueSound
<1>1. IInv => ReadyQueueSound
  BY DEF IInv
<1> QED BY <1>1, Invariance, PTL

\* No coroutine outlives the bundle it was launched in.
THEOREM StructuredConcurrency == Spec => []NoOrphans
<1>1. IInv => NoOrphans
  BY DEF IInv
<1> QED BY <1>1, Invariance, PTL

\* A coroutine being closed blocks no more, and whoever waits in hclose() for
\* it or in bundle_wait() for its bundle is woken up by its dill_epilogue.
THEOREM NobodyForgotten ==
  Spec => [](CanceledNeverBlocks /\ CloseNotForgotten /\ WaitNotForgotten)
<1>1. IInv => CanceledNeverBlocks /\ CloseNotForgotten /\ WaitNotForgotten
  BY DEF IInv
<1> QED BY <1>1, Invariance, PTL

\* bundle_close frees the stacks of finished coroutines only.
THEOREM FreesFinished == Spec => []FreedOnlyFinished
<1>1. IInv => FreedOnlyFinished
  BY DEF IInv
<1> QED BY <1>1, Invariance, PTL

-----------------------------------------------------------------------------
(***************************************************************************)
(* Blocking calls of other modules: channels, file descriptors. Here is    *)
(* what the steps of coroutines and bundles mean to them.                  *)
(***************************************************************************)

\* Whoever has a clause in a list of another module is in one of its calls, and
\* suspended; and who is in such a call is alive.
ExtSound ==
  /\ IInv
  /\ Alive => /\ \A x \in Crs : call[x] = InExt => x \in live \ done
              /\ \A e \in Endpoints : \A x \in Range(wq[e]) : call[x] = InExt /\ Suspended(x)

\* The result of dill_wait that says that clause i was successful is on its way
\* to the coroutine x, or has just reached it.
Given(x, i) ==
  \/ x \in Range(ready) /\ res[x] = Result(i - 1, "0")
  \/ r = x /\ ret = Result(i - 1, "0")

\* A step of coroutines and bundles: it links no clause and starts or ends no
\* call of another module; who leaves a list leaves all of them, is woken up, and is not
\* told that a clause was successful.
CrKeeps ==
  /\ \A e \in Endpoints : /\ Range(wq'[e]) \subseteq Range(wq[e])
                          /\ NoDup(wq[e]) => NoDup(wq'[e])
                          /\ \A x \in Range(wq'[e]) : Suspended(x)'
  /\ \A x \in Crs : call'[x] = InExt <=> call[x] = InExt
  /\ \A x \in Crs : call[x] = InExt =>
        /\ x \in live' \ done'
        /\ Suspended(x)' =>
             Suspended(x) /\ \A e \in Endpoints : x \in Range(wq[e]) => x \in Range(wq'[e])
        /\ \A i \in Int : Given(x, i)' <=> Given(x, i)

LEMMA Blocked ==
  ASSUME ExtSound, Alive, NEW e \in Endpoints, NEW x \in Range(wq[e])
  PROVE  x \in Crs /\ call[x] = InExt /\ Suspended(x) /\ x # r /\ x \notin Range(ready)
<1>1. wq[e] \in Seq(Crs)
  BY DEF ExtSound, IInv, TypeOK
<1>2. x \in Crs
  BY <1>1, RangeDef
<1> QED BY <1>2 DEF ExtSound, Suspended

\* What dill_docancel does to the lists, if its assertion holds.
LEMMA DoCancelLists ==
  ASSUME TypeOK, NEW q \in Seq(Crs), NEW f, DoCancel(q, f), Alive, Alive'
  PROVE  /\ Range(q) \cap Range(ready) = {}
         /\ \A e \in Endpoints : /\ wq'[e] = Without(wq[e], Range(q))
                                 /\ wq'[e] \in Seq(Crs)
                                 /\ Range(wq'[e]) = Range(wq[e]) \ Range(q)
                                 /\ NoDup(wq[e]) => NoDup(wq'[e])
<1>1. Range(q) \cap Range(ready) = {} /\ CancelClauses(Range(q))
  BY DEF DoCancel, Alive
<1>2. wq' = [e \in Endpoints |-> Without(wq[e], Range(q))] /\ wq \in [Endpoints -> Seq(Crs)]
  BY <1>1 DEF CancelClauses, TypeOK
<1>3. \A e \in Endpoints : wq'[e] = Without(wq[e], Range(q)) /\ wq[e] \in Seq(Crs)
  BY <1>2
<1> QED BY <1>1, <1>3, WithoutFacts

\* The steps of a running coroutine c that is in no such call.
LEMMA UserKeeps ==
  ASSUME ExtSound, Alive, NEW c \in Crs, r = c, call[c] # InExt,
         \A e \in Endpoints : /\ Range(wq'[e]) \subseteq Range(wq[e])
                              /\ NoDup(wq[e]) => NoDup(wq'[e]),
         \A x \in Crs : call'[x] = InExt => call[x] = InExt,
         \A x \in Crs : call[x] = InExt =>
            /\ r' # x /\ x \in live' \ done' /\ call'[x] = InExt
            /\ x \in Range(ready) => x \in Range(ready') /\ res'[x] = res[x]
            /\ x \in Range(ready') /\ x \notin Range(ready) =>
                 res'[x].err # "0" /\ \A e \in Endpoints : x \notin Range(wq'[e])
            /\ x \notin Range(ready') =>
                 \A e \in Endpoints : x \in Range(wq[e]) => x \in Range(wq'[e])
  PROVE  CrKeeps
<1>1. ASSUME NEW e \in Endpoints, NEW x \in Range(wq'[e]) PROVE Suspended(x)'
  <2>1. x \in Range(wq[e])
    BY <1>1
  <2>2. x \in Crs /\ call[x] = InExt /\ x \notin Range(ready)
    BY <2>1, Blocked
  <2> QED BY <1>1, <2>2 DEF Suspended
<1>2. ASSUME NEW x \in Crs, call[x] = InExt
      PROVE  /\ x \in live' \ done'
             /\ Suspended(x)' =>
                  Suspended(x) /\ \A e \in Endpoints : x \in Range(wq[e]) => x \in Range(wq'[e])
             /\ \A i \in Int : Given(x, i)' <=> Given(x, i)
  <2>1. r # x /\ r' # x
    BY <1>2
  <2>2. \A i \in Int : Given(x, i)' <=> Given(x, i)
    <3>1. \A i \in Int : Result(i - 1, "0").err = "0"
      BY DEF Result
    <3>2. CASE x \in Range(ready)
      BY <1>2, <2>1, <3>2 DEF Given
    <3>3. CASE x \notin Range(ready) /\ x \in Range(ready')
      BY <1>2, <2>1, <3>1, <3>3 DEF Given
    <3>4. CASE x \notin Range(ready) /\ x \notin Range(ready')
      BY <2>1, <3>4 DEF Given
    <3> QED BY <3>2, <3>3, <3>4
  <2> QED BY <1>2, <2>1, <2>2 DEF Suspended
<1> QED BY <1>1, <1>2 DEF CrKeeps

\* dill_longjmp, exactly: only the result of the one that goes on is consumed.
LEMMA JumpExact ==
  ASSUME NEW q \in Seq(Crs), q # <<>>, NEW f \in [Crs -> Results], Jump(q, f), NoDup(q)
  PROVE  /\ r' \in Range(q) /\ r' \in Crs /\ ret' = f[r']
         /\ Range(ready') = Range(q) \ {r'}
         /\ \A x \in Crs : x # r' => res'[x] = f[x]
<1>1. r' = Head(q) /\ ready' = Tail(q) /\ ret' = f[Head(q)]
        /\ res' = [f EXCEPT ![Head(q)] = NoResult]
  BY DEF Jump
<1>2. /\ Head(q) \in Crs /\ Head(q) \in Range(q)
      /\ Range(q) = Range(Tail(q)) \cup {Head(q)} /\ Head(q) \notin Range(Tail(q))
  BY RangeTail
<1>3. \A x \in Crs : x # r' => res'[x] = f[x]
  BY <1>1
<1>4. Range(ready') = Range(q) \ {r'}
  BY <1>1, <1>2
<1> QED BY <1>1, <1>2, <1>3, <1>4

\* dill_wait wakes up nobody but those whose timers have expired.
LEMMA KernelKeeps ==
  ASSUME ExtSound, Alive, Alive', Kernel PROVE CrKeeps
<1>1. /\ ready \in Seq(Crs) /\ res \in [Crs -> Results] /\ TypeOK
      /\ timers \in Seq(Crs) /\ NoDup(ready) /\ NoDup(timers)
      /\ Range(ready) \cap Range(timers) = {} /\ tm \in [Crs -> [at : Nat, id : Nat]]
      /\ wq \in [Endpoints -> Seq(Crs)]
  BY DEF ExtSound, IInv, TypeOK, ReadyQueueSound
<1>2. \A x \in Crs : call[x] = InExt => x \in live \ done
  BY DEF ExtSound
<1>3. NoCr \notin Crs
  BY SchedAssumption
<1>4. CASE RunReady /\ UNCHANGED crVars
  <2>1. /\ r = NoCr /\ ready # <<>> /\ Jump(ready, res) /\ wq' = wq
        /\ call' = call /\ live' = live /\ done' = done
    BY <1>4 DEF RunReady, MustPoll, crVars
  <2>2. /\ r' \in Range(ready) /\ r' \in Crs /\ ret' = res[r']
        /\ Range(ready') = Range(ready) \ {r'}
        /\ \A x \in Crs : x # r' => res'[x] = res[x]
    BY <1>1, <2>1, JumpExact
  <2>3. \A x \in Crs : Suspended(x)' <=> Suspended(x)
    BY <1>3, <2>1, <2>2 DEF Suspended
  <2>4. ASSUME NEW x \in Crs, NEW i \in Int PROVE Given(x, i)' <=> Given(x, i)
    BY <1>3, <2>1, <2>2 DEF Given
  <2>5. \A e \in Endpoints : \A x \in Range(wq[e]) : x \in Crs /\ Suspended(x)
    BY Blocked
  <2> QED BY <1>2, <2>1, <2>3, <2>4, <2>5 DEF CrKeeps
<1>5. CASE PollAndRun /\ UNCHANGED crVars
  <2> DEFINE f == [c \in Crs |-> IF c \in Range(Due)
                                 THEN Result(tm[c].id, "ETIMEDOUT") ELSE res[c]]
             q == ready \o Due
  <2>1. /\ r = NoCr /\ CancelClauses(Range(Due)) /\ Jump(q, f)
        /\ Range(Due) \cap Range(ready) = {} /\ (ready # <<>> \/ Due # <<>>)
        /\ call' = call /\ live' = live /\ done' = done
    <3>1. Range(Due) \cap Range(ready) = {}
      BY <1>5 DEF PollAndRun, Alive
    <3> QED BY <1>5, <3>1 DEF PollAndRun, crVars
  <2>2. Due \in Seq(Crs) /\ Range(Due) \subseteq Range(timers) /\ NoDup(Due)
    BY <1>1, DueFacts
  <2>3. q \in Seq(Crs) /\ Range(q) = Range(ready) \cup Range(Due) /\ NoDup(q)
    BY <1>1, <2>1, <2>2, RangeConcat
  <2>4. q # <<>>
    BY <1>1, <2>1, <2>2, <2>3, RangeDef
  <2>5. f \in [Crs -> Results]
    BY <1>1 DEF Result, Results, Errors
  <2>6. \A x \in Crs : IF x \in Range(Due) THEN f[x].err = "ETIMEDOUT" ELSE f[x] = res[x]
    BY DEF Result
  <2> HIDE DEF f, q
  <2>7. /\ r' \in Range(q) /\ r' \in Crs /\ ret' = f[r']
        /\ Range(ready') = Range(q) \ {r'}
        /\ \A x \in Crs : x # r' => res'[x] = f[x]
    BY <2>1, <2>3, <2>4, <2>5, JumpExact
  <2>8. \A e \in Endpoints : /\ Range(wq'[e]) = Range(wq[e]) \ Range(Due)
                             /\ NoDup(wq[e]) => NoDup(wq'[e])
    <3>1. \A e \in Endpoints : wq'[e] = Without(wq[e], Range(Due)) /\ wq[e] \in Seq(Crs)
      BY <1>1, <2>1 DEF CancelClauses
    <3> QED BY <3>1, WithoutFacts
  <2>9. \A x \in Crs : Suspended(x)' <=> Suspended(x) /\ x \notin Range(Due)
    BY <1>3, <2>1, <2>3, <2>7 DEF Suspended
  <2>10. ASSUME NEW x \in Crs, NEW i \in Int PROVE Given(x, i)' <=> Given(x, i)
    <3>1. Result(i - 1, "0").err = "0"
      BY DEF Result
    <3>2. CASE x \in Range(Due)
      BY <1>3, <2>1, <2>6, <2>7, <3>1, <3>2 DEF Given
    <3>3. CASE x \notin Range(Due)
      BY <1>3, <2>1, <2>3, <2>6, <2>7, <3>3 DEF Given
    <3> QED BY <3>2, <3>3
  <2>11. \A e \in Endpoints : \A x \in Range(wq[e]) : x \in Crs /\ Suspended(x)
    BY Blocked
  <2> QED BY <1>2, <2>1, <2>8, <2>9, <2>10, <2>11 DEF CrKeeps
<1>6. CASE (Tick \/ Crashed) /\ UNCHANGED crVars
  <2>1. UNCHANGED <<r, ret, ready, res, wq, call, live, done>>
    BY <1>6 DEF Tick, Crashed, schedVars, crVars
  <2>2. \A e \in Endpoints : \A x \in Range(wq[e]) : Suspended(x)
    BY Blocked
  <2> QED BY <1>2, <2>1, <2>2 DEF CrKeeps, Suspended, Given
<1> QED BY <1>4, <1>5, <1>6 DEF Kernel

\* A step that wakes up nobody in a blocking call of another module and leaves the lists alone.
LEMMA StillKeeps ==
  ASSUME ExtSound, Alive, NEW c \in Crs, r = c, call[c] # InExt, wq' = wq,
         \A x \in Crs : call'[x] = InExt <=> call[x] = InExt,
         \A x \in Crs : call[x] = InExt =>
            /\ r' # x /\ x \in live' \ done' /\ res'[x] = res[x]
            /\ x \in Range(ready') <=> x \in Range(ready)
  PROVE  CrKeeps
BY UserKeeps

\* A step that cancels the coroutines of q and gives up the CPU: those that are
\* in a blocking call of another module are told an error.
LEMMA CancelKeeps ==
  ASSUME ExtSound, Alive, Alive', NEW c \in Crs, r = c, call[c] # InExt, r' = NoCr,
         NEW q \in Seq(Crs), NEW f \in [Crs -> Results], DoCancel(q, f),
         \A x \in Crs : call'[x] = InExt <=> call[x] = InExt,
         \A x \in Crs : call[x] = InExt => x \in live' \ done',
         \A x \in Crs : x \in Range(q) /\ call[x] = InExt => f[x].err # "0"
  PROVE  CrKeeps
<1>1. TypeOK
  BY DEF ExtSound, IInv
<1>2. /\ Range(q) \cap Range(ready) = {}
      /\ \A e \in Endpoints : /\ Range(wq'[e]) = Range(wq[e]) \ Range(q)
                              /\ NoDup(wq[e]) => NoDup(wq'[e])
  BY <1>1, DoCancelLists
<1>3. /\ Range(ready') = Range(ready) \cup Range(q)
      /\ \A x \in Crs : res'[x] = IF x \in Range(q) THEN f[x] ELSE res[x]
  <2>1. Resume(q, f) /\ ready \in Seq(Crs)
    BY <1>1, <1>2 DEF DoCancel, TypeOK
  <2>2. ready' = ready \o q
    BY <2>1 DEF Resume
  <2>3. \A x \in Crs : res'[x] = IF x \in Range(q) THEN f[x] ELSE res[x]
    BY <2>1 DEF Resume
  <2> QED BY <2>1, <2>2, <2>3, RangeConcat
<1>4. \A x \in Crs : r' # x
  BY SchedAssumption
<1>5. \A x \in Crs : call[x] = InExt =>
         /\ r' # x /\ x \in live' \ done' /\ call'[x] = InExt
         /\ x \in Range(ready) => x \in Range(ready') /\ res'[x] = res[x]
         /\ x \in Range(ready') /\ x \notin Range(ready) =>
              res'[x].err # "0" /\ \A e \in Endpoints : x \notin Range(wq'[e])
         /\ x \notin Range(ready') =>
              \A e \in Endpoints : x \in Range(wq[e]) => x \in Range(wq'[e])
  BY <1>2, <1>3, <1>4
<1>6. \A e \in Endpoints : /\ Range(wq'[e]) \subseteq Range(wq[e])
                           /\ NoDup(wq[e]) => NoDup(wq'[e])
  BY <1>2
<1> QED BY <1>5, <1>6, UserKeeps

\* The loop of dill_bundle_close.
LEMMA CloseRestKeeps ==
  ASSUME ExtSound, Alive, Alive', NEW c \in Crs, r = c, call[c] # InExt,
         NEW b \in Bundles, NEW q \in Seq(Crs), NEW F, F \subseteq done, CloseRest(c, b, q, F)
  PROVE  CrKeeps
<1>1. /\ \A x \in Crs : call[x] = InExt => x \in live \ done
      /\ call \in [Crs -> Frames] /\ NoCr \notin Crs
  BY SchedAssumption DEF ExtSound, IInv, TypeOK
<1>2. \A x \in Crs : call[x] = InExt => x \in live' \ done'
  BY <1>1 DEF CloseRest
<1>3. CASE q = <<>>
  <2>1. call' = [call EXCEPT ![c] = Idle] /\ UNCHANGED <<r, ready, res, wq>>
    BY <1>3 DEF CloseRest
  <2>2. \A x \in Crs : call'[x] = InExt <=> call[x] = InExt
    BY <1>1, <2>1, FrameTypes
  <2> QED BY <1>2, <2>1, <2>2, StillKeeps
<1>4. CASE q # <<>>
  <2>1. /\ call' = [call EXCEPT ![c] = InClose(b, Head(q))] /\ r' = NoCr
        /\ Head(q) \in Crs
    BY <1>4, RangeTail DEF CloseRest, Suspend
  <2>2. \A x \in Crs : call'[x] = InExt <=> call[x] = InExt
    BY <1>1, <2>1, FrameTypes
  <2>3. CASE IsBlocked(Head(q))
    <3> DEFINE d == Head(q)
               g == <<d>>
               f == [x \in Crs |-> Result(-1, "ECANCELED")]
    <3>1. DoCancel(g, f)
      BY <1>4, <2>3 DEF CloseRest, DoCancelOne
    <3>2. g \in Seq(Crs) /\ f \in [Crs -> Results] /\ \A x \in Crs : f[x].err # "0"
      BY <2>1, ResultTypes DEF Result
    <3> HIDE DEF g, f
    <3> QED BY <1>2, <2>1, <2>2, <3>1, <3>2, CancelKeeps
  <2>4. CASE ~IsBlocked(Head(q))
    <3>1. UNCHANGED <<ready, res, wq>>
      BY <1>4, <2>4 DEF CloseRest
    <3> QED BY <1>1, <1>2, <2>1, <2>2, <3>1, StillKeeps
  <2> QED BY <2>3, <2>4
<1> QED BY <1>3, <1>4

\* dill_epilogue wakes up a coroutine in hclose() and one in bundle_wait().
LEMMA ReturnKeeps ==
  ASSUME ExtSound, Alive, Alive', NEW c \in Crs, Return(c)
  PROVE  CrKeeps
<1> DEFINE b == BundleOf(c)
           freed == c \notin nb1
           closers == IF closer[c] # NoCr THEN <<closer[c]>> ELSE <<>>
           waiters == IF freed /\ IsLast(c, b) /\ waiter[b] # NoCr
                      THEN <<waiter[b]>> ELSE <<>>
           q == closers \o waiters
           f == [x \in Crs |-> Result(IF x = closer[c] THEN -1 ELSE 0, "0")]
<1>1. /\ r = c /\ call[c] = Idle /\ c # Main /\ r' = NoCr /\ call' = call
      /\ DoCancel(q, f)
      /\ done' = IF freed THEN done ELSE done \cup {c}
      /\ live' = IF freed THEN live \ {c} ELSE live
  BY DEF Return, User, Running, Suspend
<1>2. /\ closer \in [Crs -> Ptr] /\ waiter \in [Bundles -> Ptr] /\ NoCr \notin Crs
      /\ c \in live /\ IInv
  BY <1>1, SchedAssumption DEF ExtSound, IInv, TypeOK, ReadyQueueSound
<1>3. b \in Bundles /\ Range(<<>>) = {} /\ <<>> \in Seq(Crs)
  BY <1>1, <1>2, BundleOfFacts, RangeSmall
<1>4. closers \in Seq(Crs) /\ \A x \in Range(closers) : call[x].op = "close"
  <2>1. CASE closer[c] = NoCr
    <3>1. closers = <<>>
      BY <2>1
    <3> HIDE DEF closers
    <3> QED BY <1>3, <3>1
  <2>2. CASE closer[c] # NoCr
    <3>1. closer[c] \in Crs /\ call[closer[c]].op = "close"
      BY <1>2, <2>2 DEF Ptr, IInv, CloseCoherent
    <3>2. closers = <<closer[c]>>
      BY <2>2
    <3>3. Range(<<closer[c]>>) = {closer[c]} /\ <<closer[c]>> \in Seq(Crs)
      BY <3>1, RangeSmall
    <3> HIDE DEF closers
    <3> QED BY <3>1, <3>2, <3>3
  <2> QED BY <2>1, <2>2
<1>5. waiters \in Seq(Crs) /\ \A x \in Range(waiters) : call[x].op = "wait"
  <2>1. CASE waiters = <<>>
    <3> HIDE DEF waiters
    <3> QED BY <1>3, <2>1
  <2>2. CASE waiters # <<>>
    <3>1. waiters = <<waiter[b]>> /\ waiter[b] # NoCr
      BY <2>2
    <3>2. waiter[b] \in Crs /\ call[waiter[b]].op = "wait"
      BY <1>2, <1>3, <3>1 DEF Ptr, IInv, WaitCoherent
    <3>3. Range(<<waiter[b]>>) = {waiter[b]} /\ <<waiter[b]>> \in Seq(Crs)
      BY <3>2, RangeSmall
    <3> HIDE DEF waiters
    <3> QED BY <3>1, <3>2, <3>3
  <2> QED BY <2>1, <2>2
<1>6. f \in [Crs -> Results]
  BY DEF Result, Results, Errors
<1> HIDE DEF closers, waiters, f, b
<1>7. q \in Seq(Crs) /\ Range(q) = Range(closers) \cup Range(waiters)
  BY <1>4, <1>5, RangeConcat
<1>8. \A x \in Crs : x \in Range(q) => call[x] # InExt
  BY <1>4, <1>5, <1>7, FrameTypes
<1>9. \A x \in Crs : call[x] = InExt => x \in live' \ done'
  BY <1>1, FrameTypes DEF ExtSound
<1> HIDE DEF q
<1> QED BY <1>1, <1>6, <1>7, <1>8, <1>9, FrameTypes, CancelKeeps

\* The steps of a coroutine of coroutines and bundles.
LEMMA UserStepKeeps ==
  ASSUME ExtSound, Alive, Alive', NEW c \in Crs, UserStep(c)
  PROVE  CrKeeps
<1>1. /\ \A x \in Crs : call[x] = InExt => x \in live \ done
      /\ call \in [Crs -> Frames] /\ crs \in [Bundles -> Seq(Crs)] /\ NoCr \notin Crs
      /\ Idle # InExt /\ IInv
  BY SchedAssumption, FrameTypes DEF ExtSound, IInv, TypeOK
<1>2. ASSUME NEW b \in Bundles, Bundle(c, b) PROVE CrKeeps
  <2>1. r = c /\ call[c] = Idle /\ UNCHANGED <<r, ready, res, wq, live, done, call>>
    BY <1>2 DEF Bundle, User, Running, schedVars
  <2> QED BY <1>1, <2>1, StillKeeps
<1>3. ASSUME NEW b \in Bundles, NEW d \in Crs, User(c), Launch(c, b, d) PROVE CrKeeps
  <2>1. /\ r = c /\ call[c] = Idle /\ d \notin live /\ live' = live \cup {d} /\ r' = d
        /\ UNCHANGED <<wq, call, done>> /\ Resume(<<c>>, [x \in Crs |-> NoResult])
    BY <1>3 DEF Launch, User, Running
  <2>2. Range(<<c>>) = {c} /\ ready \in Seq(Crs)
    BY <1>1, RangeSmall DEF IInv, TypeOK
  <2>3. \A x \in Crs \ {c} : res'[x] = res[x]
    BY <2>1, <2>2 DEF Resume
  <2>4. ready' = ready \o <<c>>
    BY <2>1 DEF Resume
  <2>5. Range(ready') = Range(ready) \cup {c}
    BY <2>2, <2>4, RangePush
  <2> QED BY <1>1, <2>1, <2>3, <2>5, StillKeeps
<1>4. CASE Yield(c)
  <2>1. /\ r = c /\ call[c] = Idle /\ r' = NoCr
        /\ UNCHANGED <<wq, call, live, done>> /\ Resume(<<c>>, [x \in Crs |-> NoResult])
    BY <1>4 DEF Yield, User, Running, Suspend, crVars
  <2>2. Range(<<c>>) = {c} /\ ready \in Seq(Crs)
    BY <1>1, RangeSmall DEF IInv, TypeOK
  <2>3. \A x \in Crs \ {c} : res'[x] = res[x]
    BY <2>1, <2>2 DEF Resume
  <2>4. ready' = ready \o <<c>>
    BY <2>1 DEF Resume
  <2>5. Range(ready') = Range(ready) \cup {c}
    BY <2>2, <2>4, RangePush
  <2> QED BY <1>1, <2>1, <2>3, <2>5, StillKeeps
<1>5. ASSUME NEW delay \in SleepDelays, Msleep(c, delay) PROVE CrKeeps
  <2>1. r = c /\ call[c] = Idle /\ r' = NoCr /\ UNCHANGED <<ready, res, wq, live, done, call>>
    BY <1>5 DEF Msleep, User, Running, Suspend, crVars
  <2> QED BY <1>1, <2>1, StillKeeps
<1>6. ASSUME NEW b \in Bundles, NEW delay \in WaitDelays, BundleWait(c, b, delay) PROVE CrKeeps
  <2>1. /\ r = c /\ call[c] = Idle /\ r' = NoCr /\ UNCHANGED <<ready, res, wq, live, done>>
        /\ call' = [call EXCEPT ![c] = InWait(b)]
    BY <1>6 DEF BundleWait, User, Running, Suspend
  <2>2. \A x \in Crs : call'[x] = InExt <=> call[x] = InExt
    BY <1>1, <2>1, FrameTypes
  <2> QED BY <1>1, <2>1, <2>2, StillKeeps
<1>7. CASE BundleWaitReturn(c)
  <2>1. /\ r = c /\ call[c].op = "wait" /\ UNCHANGED <<r, ready, res, wq, live, done>>
        /\ call' = [call EXCEPT ![c] = Idle]
    BY <1>7 DEF BundleWaitReturn, Running
  <2>2. call[c] # InExt /\ \A x \in Crs : call'[x] = InExt <=> call[x] = InExt
    BY <1>1, <2>1, FrameTypes
  <2> QED BY <1>1, <2>1, <2>2, StillKeeps
<1>8. ASSUME NEW b \in Bundles, Hclose(c, b) PROVE CrKeeps
  <2>1. r = c /\ call[c] = Idle /\ CloseRest(c, b, crs[b], {}) /\ crs[b] \in Seq(Crs)
    BY <1>1, <1>8 DEF Hclose, User, Running
  <2> QED BY <1>1, <2>1, CloseRestKeeps
<1>9. CASE HcloseResume(c)
  <2>1. /\ r = c /\ call[c].op = "close" /\ ret = Result(-1, "0")
        /\ CloseRest(c, call[c].b, RestOf(call[c].b), {call[c].cur})
    BY <1>9 DEF HcloseResume, Running, Alive
  <2>2. call[c].b \in Bundles /\ call[c] # InExt
    BY <1>1, <2>1, FrameTypes
  <2>3. call[c].cur \in done /\ crs[call[c].b] # <<>>
    BY <1>1, <2>1 DEF IInv, FreedOnlyFinished, CloseCoherent
  <2>4. RestOf(call[c].b) \in Seq(Crs)
    BY <1>1, <2>2, <2>3, RangeTail DEF RestOf
  <2> QED BY <2>1, <2>2, <2>3, <2>4, CloseRestKeeps
<1>10. CASE Return(c)
  BY <1>10, ReturnKeeps
<1> QED BY <1>2, <1>3, <1>4, <1>5, <1>6, <1>7, <1>8, <1>9, <1>10
        DEF UserStep, Go, BundleGo

\* The call blocks: coroutines and bundles. Whoever is being closed cannot block.
LEMMA BlockIInv ==
  ASSUME IInv, Alive, NEW c \in Crs, r = c, call[c] = Idle, c \notin nb1,
         NEW n \in Nat, NEW at \in Int, SetTimer(c, n, at), Suspend,
         call' = [call EXCEPT ![c] = InExt], wq' \in [Endpoints -> Seq(Crs)],
         UNCHANGED <<ready, res, nb1, now, lastPoll, abort, live, done, closer, owner, crs, waiter>>
  PROVE  IInv'
<1>1. TypeOK /\ r' = NoCr /\ ret' = NoResult
  BY DEF IInv, Suspend
<1>2. /\ timers' \in Seq(Crs)
      /\ tm' \in [Crs -> [at : Nat, id : Nat]]
      /\ Range(timers) \subseteq Range(timers')
      /\ Range(timers') \subseteq Range(timers) \cup {c}
      /\ NoDup(timers) /\ c \notin Range(timers) => NoDup(timers')
  BY <1>1, SetTimerFacts
<1>3. TypeOK'
  BY <1>1, <1>2, ResultTypes, FrameTypes DEF TypeOK, Ptr
<1>4. NoCr \notin Range(ready') /\ NoCr \notin Range(timers')
  BY <1>3, SchedAssumption, RangeDef DEF TypeOK
<1>5. ReadyQueueSound'
  BY <1>1, <1>2, <1>4, SchedAssumption DEF IInv, ReadyQueueSound, Alive
<1>6. /\ \A x \in Crs \ {c} : call'[x] = call[x] /\ (Suspended(x)' => Suspended(x))
      /\ call'[c].op = "ext" /\ call[c].op = "none"
  BY <1>1, FrameTypes DEF Suspended, TypeOK
<1>7. NoOrphans'
  BY DEF IInv, NoOrphans, Alive, Open
<1>8. CloseCoherent'
  BY <1>1, <1>6, SchedAssumption DEF IInv, CloseCoherent, Alive, TypeOK, Ptr
<1>9. WaitCoherent'
  BY <1>1, <1>6, SchedAssumption DEF IInv, WaitCoherent, Alive, TypeOK, Ptr
<1>10. CanceledNeverBlocks'
  BY <1>1, <1>6 DEF IInv, CanceledNeverBlocks, Alive, TypeOK
<1>11. CloseNotForgotten' /\ WaitNotForgotten'
  BY <1>1, <1>6 DEF IInv, CloseNotForgotten, WaitNotForgotten, Alive, TypeOK
<1>12. FreedOnlyFinished'
  BY <1>1, <1>6, NoAnswer, SchedAssumption
<1> QED BY <1>3, <1>5, <1>7, <1>8, <1>9, <1>10, <1>11, <1>12 DEF IInv

-----------------------------------------------------------------------------
(***************************************************************************)
(* Timers.                                                                 *)
(***************************************************************************)

\* The timers are in the order of their deadlines.
TimersSorted ==
  \A i, j \in DOMAIN timers : i < j => tm[timers[i]].at <= tm[timers[j]].at

\* A set of positions without gaps is counted by its last one.
LEMMA Prefix ==
  ASSUME NEW n \in Nat, NEW K, K \subseteq 1..n,
         \A i \in K, j \in 1..n : j < i => j \in K
  PROVE  Cardinality(K) \in Nat /\ K = 1..Cardinality(K)
<1>1. CASE K = 1..n
  <2>1. Cardinality(1..n) = n
    BY FS_Interval
  <2> QED BY <1>1, <2>1
<1>2. CASE K # 1..n
  <2> DEFINE T == (1..n) \ K
  <2>1. T # {} /\ T \subseteq Nat
    <3>1. \E x \in 1..n : x \notin K
      BY <1>2
    <3> QED BY <3>1
  <2>2. PICK m \in T : \A i \in T : m <= i
    BY <2>1, NatMin
  <2>3. m \in 1..n /\ m \notin K
    BY <2>2
  <2>4. \A i \in K : i < m
    BY <2>3
  <2>5. \A i \in 1..(m - 1) : i \in K
    BY <2>2, <2>3
  <2>6. K = 1..(m - 1)
    <3>1. K \subseteq 1..(m - 1)
      BY <2>3, <2>4
    <3>2. 1..(m - 1) \subseteq K
      BY <2>5
    <3> QED BY <3>1, <3>2
  <2>7. Cardinality(1..(m - 1)) = m - 1
    BY <2>3, FS_Interval
  <2> QED BY <2>3, <2>6, <2>7
<1> QED BY <1>1, <1>2

\* The timers up to a deadline are the first ones.
LEMMA FirstTimers ==
  ASSUME TypeOK, TimersSorted, NEW at \in Int, NEW K,
         K = {i \in DOMAIN timers : tm[timers[i]].at <= at}
  PROVE  /\ Cardinality(K) \in 0..Len(timers) /\ K = 1..Cardinality(K)
         /\ DOMAIN timers = 1..Len(timers) /\ Len(timers) \in Nat
         /\ \A i \in 1..Len(timers) : timers[i] \in Crs /\ tm[timers[i]].at \in Nat
<1>1. timers \in Seq(Crs) /\ tm \in [Crs -> [at : Nat, id : Nat]]
  BY DEF TypeOK
<1>2. DOMAIN timers = 1..Len(timers) /\ Len(timers) \in Nat
  BY <1>1
<1>3. \A i \in 1..Len(timers) : timers[i] \in Crs /\ tm[timers[i]].at \in Nat
  BY <1>1
<1>4. K \subseteq 1..Len(timers)
  BY <1>2
<1>5. ASSUME NEW i \in K, NEW j \in 1..Len(timers), j < i PROVE j \in K
  <2>1. i \in 1..Len(timers) /\ tm[timers[i]].at <= at
    BY <1>2
  <2>2. tm[timers[j]].at <= tm[timers[i]].at
    BY <1>2, <1>5, <2>1 DEF TimersSorted
  <2> QED BY <1>2, <1>3, <2>1, <2>2
<1>6. Cardinality(K) \in Nat /\ K = 1..Cardinality(K)
  BY <1>2, <1>4, <1>5, Prefix
<1>7. Cardinality(K) \in 0..Len(timers)
  BY <1>1, <1>4, CountBound
<1> QED BY <1>2, <1>3, <1>6, <1>7

\* The expired timers are all those whose deadline is reached, and only those.
LEMMA DueExact ==
  ASSUME TypeOK, TimersSorted
  PROVE  \A c \in Range(timers) : c \in Range(Due) <=> tm[c].at <= now
<1> DEFINE K == {i \in DOMAIN timers : tm[timers[i]].at <= now}
           k == Cardinality(K)
<1>1. timers \in Seq(Crs) /\ now \in Int
  BY DEF TypeOK
<1>2. /\ k \in 0..Len(timers) /\ K = 1..k
      /\ DOMAIN timers = 1..Len(timers) /\ Len(timers) \in Nat
      /\ \A i \in 1..Len(timers) : timers[i] \in Crs /\ tm[timers[i]].at \in Nat
  BY <1>1, FirstTimers
<1>3. Due = SubSeq(timers, 1, k)
  BY DEF Due
<1>4. \A i \in 1..Len(timers) : i \in K <=> tm[timers[i]].at <= now
  BY <1>2
<1> HIDE DEF k, K
<1>5. k \in Nat /\ k <= Len(timers) /\ 1 \in Nat /\ 1 <= 1
  BY <1>2
<1>6. Range(Due) = {timers[i] : i \in 1..k}
  BY <1>1, <1>3, <1>5, RangeSubSeq
<1>7. Range(timers) = {timers[i] : i \in 1..Len(timers)}
  BY <1>1, RangeDef
<1>8. ASSUME NEW c \in Range(timers), c \in Range(Due) PROVE tm[c].at <= now
  <2>1. PICK i \in 1..k : c = timers[i]
    BY <1>6, <1>8
  <2> QED BY <1>2, <1>4, <1>5, <2>1
<1>9. ASSUME NEW c \in Range(timers), tm[c].at <= now PROVE c \in Range(Due)
  <2>1. PICK i \in 1..Len(timers) : c = timers[i]
    BY <1>7
  <2> QED BY <1>2, <1>4, <1>6, <1>9, <2>1
<1> QED BY <1>8, <1>9

\* The list s is the list q with x inserted in front of position k.
Inserted(s, q, x, k) ==
  /\ Len(s) = Len(q) + 1 /\ s[k] = x
  /\ \A i \in 1..(k - 1) : s[i] = q[i]
  /\ \A i \in (k + 1)..Len(s) : s[i] = q[i - 1]

LEMMA InsertedAt ==
  ASSUME NEW X, NEW q \in Seq(X), NEW x \in X, NEW k \in 1..(Len(q) + 1)
  PROVE  Inserted(SubSeq(q, 1, k - 1) \o <<x>> \o SubSeq(q, k, Len(q)), q, x, k)
<1> DEFINE a == SubSeq(q, 1, k - 1)
           z == SubSeq(q, k, Len(q))
           w == a \o <<x>>
           s == w \o z
<1>1. k \in Nat /\ k - 1 \in Nat /\ 1 <= k /\ k - 1 <= Len(q) /\ Len(q) \in Nat
  OBVIOUS
<1>2. a \in Seq(X) /\ Len(a) = k - 1 /\ \A i \in 1..(k - 1) : a[i] = q[i]
  BY <1>1
<1>3. z \in Seq(X) /\ Len(z) = Len(q) - k + 1 /\ \A i \in 1..Len(z) : z[i] = q[k + i - 1]
  BY <1>1
<1> HIDE DEF a, z
<1>4. w \in Seq(X) /\ Len(w) = k /\ w[k] = x /\ \A i \in 1..(k - 1) : w[i] = q[i]
  BY <1>1, <1>2
<1> HIDE DEF w
<1>5. /\ s \in Seq(X) /\ Len(s) = Len(w) + Len(z)
      /\ \A i \in 1..(Len(w) + Len(z)) : s[i] = IF i <= Len(w) THEN w[i] ELSE z[i - Len(w)]
  BY <1>3, <1>4, ConcatFacts
<1> HIDE DEF s
<1>6. /\ \A i \in 1..Len(w) : s[i] = w[i]
      /\ \A i \in (Len(w) + 1)..Len(s) : s[i] = z[i - Len(w)]
  BY <1>1, <1>3, <1>4, <1>5
<1>7. Len(s) = Len(q) + 1
  BY <1>1, <1>3, <1>4, <1>5
<1>8. s[k] = x /\ \A i \in 1..(k - 1) : s[i] = q[i]
  BY <1>1, <1>4, <1>6
<1>9. ASSUME NEW i \in (k + 1)..Len(s) PROVE s[i] = q[i - 1]
  <2>1. i - k \in 1..Len(z) /\ k + (i - k) - 1 = i - 1
    BY <1>1, <1>3, <1>7
  <2>2. s[i] = z[i - k]
    BY <1>4, <1>6
  <2> QED BY <1>3, <2>1, <2>2
<1>10. Inserted(s, q, x, k)
  BY <1>7, <1>8, <1>9 DEF Inserted
<1> QED BY <1>10 DEF s, w, a, z

\* dill_timer puts a timer at its place.
LEMMA SetTimerSorted ==
  ASSUME TypeOK, TimersSorted, NEW c \in Crs, c \notin Range(timers),
         NEW n, NEW d \in Int, SetTimer(c, n, d)
  PROVE  TimersSorted'
<1>1. CASE d < 0
  BY <1>1 DEF SetTimer, TimersSorted
<1>2. CASE ~(d < 0)
  <2> DEFINE K == {i \in DOMAIN timers : tm[timers[i]].at <= d}
             k == TimerSlot(d)
  <2>1. /\ timers' = SubSeq(timers, 1, k - 1) \o <<c>> \o SubSeq(timers, k, Len(timers))
        /\ tm' = [tm EXCEPT ![c] = [at |-> d, id |-> n]]
    BY <1>2 DEF SetTimer
  <2>2. /\ Cardinality(K) \in 0..Len(timers) /\ K = 1..Cardinality(K)
        /\ DOMAIN timers = 1..Len(timers) /\ Len(timers) \in Nat
        /\ \A i \in 1..Len(timers) : timers[i] \in Crs /\ tm[timers[i]].at \in Nat
    BY FirstTimers
  <2>3. k = 1 + Cardinality(K)
    BY DEF TimerSlot
  <2>4. \A i \in 1..Len(timers) : i \in K <=> tm[timers[i]].at <= d
    BY <2>2
  <2> HIDE DEF K, k
  <2>5. k \in 1..(Len(timers) + 1) /\ K = 1..(k - 1)
    BY <2>2, <2>3
  <2>6. timers \in Seq(Crs) /\ tm \in [Crs -> [at : Nat, id : Nat]]
    BY DEF TypeOK
  <2>7. /\ timers' \in Seq(Crs) /\ Len(timers') = Len(timers) + 1 /\ timers'[k] = c
        /\ \A i \in 1..(k - 1) : timers'[i] = timers[i]
        /\ \A i \in (k + 1)..Len(timers') : timers'[i] = timers[i - 1]
    <3> DEFINE s == SubSeq(timers, 1, k - 1) \o <<c>> \o SubSeq(timers, k, Len(timers))
    <3>1. s \in Seq(Crs)
      BY <2>5, <2>6, RangeInsert
    <3>2. Inserted(s, timers, c, k)
      BY <2>5, <2>6, InsertedAt
    <3>3. timers' = s
      BY <2>1
    <3> HIDE DEF s
    <3> QED BY <3>1, <3>2, <3>3 DEF Inserted
  <2>8. \A i \in 1..Len(timers) : timers[i] # c
    BY <2>2 DEF Range
  <2>9. tm'[c].at = d /\ \A x \in Crs \ {c} : tm'[x] = tm[x]
    BY <2>1, <2>6
  <2>10. \A i \in 1..(k - 1) : /\ i \in 1..Len(timers) /\ tm'[timers'[i]].at = tm[timers[i]].at
                               /\ tm[timers[i]].at <= d
    BY <2>2, <2>4, <2>5, <2>7, <2>8, <2>9
  <2>11. \A i \in (k + 1)..Len(timers') :
            /\ i - 1 \in 1..Len(timers) /\ tm'[timers'[i]].at = tm[timers[i - 1]].at
            /\ tm[timers[i - 1]].at > d
    <3> SUFFICES ASSUME NEW i \in (k + 1)..Len(timers')
                 PROVE  /\ i - 1 \in 1..Len(timers)
                        /\ tm'[timers'[i]].at = tm[timers[i - 1]].at
                        /\ tm[timers[i - 1]].at > d
      OBVIOUS
    <3>1. i - 1 \in 1..Len(timers) /\ ~(i - 1 \in 1..(k - 1))
      BY <2>2, <2>5, <2>7
    <3> QED BY <2>2, <2>4, <2>5, <2>7, <2>8, <2>9, <3>1
  <2>12. ASSUME NEW i \in 1..Len(timers'), NEW j \in 1..Len(timers'), i < j
         PROVE  tm'[timers'[i]].at <= tm'[timers'[j]].at
    <3>1. k \in Nat /\ i \in Nat /\ j \in Nat /\ Len(timers') \in Nat
      BY <2>2, <2>5, <2>7
    <3>2. CASE j < k
      <4>1. i \in 1..(k - 1) /\ j \in 1..(k - 1)
        BY <2>12, <3>1, <3>2
      <4> QED BY <2>2, <2>10, <2>12, <4>1 DEF TimersSorted
    <3>3. CASE j = k
      <4>1. i \in 1..(k - 1)
        BY <2>12, <3>1, <3>3
      <4> QED BY <2>7, <2>9, <2>10, <3>3, <4>1
    <3>4. CASE i = k
      <4>1. j \in (k + 1)..Len(timers')
        BY <2>12, <3>1, <3>4
      <4>2. tm'[timers'[j]].at = tm[timers[j - 1]].at /\ tm[timers[j - 1]].at > d
              /\ tm[timers[j - 1]].at \in Nat
        BY <2>2, <2>11, <4>1
      <4> QED BY <2>7, <2>9, <3>4, <4>2
    <3>5. CASE i < k /\ j > k
      <4>1. i \in 1..(k - 1) /\ j \in (k + 1)..Len(timers')
        BY <2>12, <3>1, <3>5
      <4> DEFINE u == tm[timers[i]].at
                 v == tm[timers[j - 1]].at
      <4>2. u \in Nat /\ u <= d /\ v \in Nat /\ v > d
              /\ tm'[timers'[i]].at = u /\ tm'[timers'[j]].at = v
        BY <2>2, <2>10, <2>11, <4>1
      <4> HIDE DEF u, v
      <4>3. u <= v
        BY <4>2
      <4> QED BY <4>2, <4>3
    <3>6. CASE i > k
      <4>1. i \in (k + 1)..Len(timers') /\ j \in (k + 1)..Len(timers') /\ i - 1 < j - 1
        BY <2>12, <3>1, <3>6
      <4> QED BY <2>2, <2>11, <4>1 DEF TimersSorted
    <3> QED BY <3>1, <3>2, <3>3, <3>4, <3>5, <3>6
  <2> QED BY <2>7, <2>12 DEF TimersSorted
<1> QED BY <1>1, <1>2

\* The cancel callbacks take timers out and leave the others in order.
LEMMA CancelSorted ==
  ASSUME TypeOK, TimersSorted, NEW S, CancelClauses(S)
  PROVE  TimersSorted'
<1>1. /\ timers' = Without(timers, S)
      /\ tm' = [c \in Crs |-> IF c \in S THEN NoTimer ELSE tm[c]]
      /\ timers \in Seq(Crs)
  BY DEF CancelClauses, TypeOK
<1>2. timers' \in Seq(Crs) /\ Range(timers') = Range(timers) \ S
  BY <1>1, WithoutFacts
<1>3. \A i, j \in 1..Len(timers') : i < j =>
         \E k, l \in 1..Len(timers) : k < l /\ timers[k] = timers'[i] /\ timers[l] = timers'[j]
  <2>1. PICK q \in Seq(Crs) : q = timers
    BY <1>1
  <2>2. \A i, j \in 1..Len(Without(q, S)) : i < j => \E k, l \in 1..Len(q) :
           k < l /\ q[k] = Without(q, S)[i] /\ q[l] = Without(q, S)[j]
    BY WithoutOrder
  <2> QED BY <1>1, <2>1, <2>2
<1>4. \A i \in 1..Len(timers') : timers'[i] \in Crs /\ tm'[timers'[i]] = tm[timers'[i]]
  <2>1. Range(timers') = {timers'[i] : i \in 1..Len(timers')} /\ Range(timers') \subseteq Crs
    BY <1>2, RangeDef
  <2>2. \A i \in 1..Len(timers') : timers'[i] \in Crs /\ timers'[i] \notin S
    BY <1>2, <2>1
  <2> QED BY <1>1, <2>2
<1>5. ASSUME NEW i \in 1..Len(timers'), NEW j \in 1..Len(timers'), i < j
      PROVE  tm'[timers'[i]].at <= tm'[timers'[j]].at
  <2>1. PICK k \in 1..Len(timers), l \in 1..Len(timers) :
           k < l /\ timers[k] = timers'[i] /\ timers[l] = timers'[j]
    BY <1>3, <1>5
  <2>2. tm[timers[k]].at <= tm[timers[l]].at
    BY <1>1, <2>1 DEF TimersSorted
  <2> QED BY <1>4, <2>1, <2>2
<1> QED BY <1>2, <1>5 DEF TimersSorted

\* What TimersOnTime says of a step.
OnTime ==
  /\ \A c \in Range(timers) \ Range(timers') :
       "ETIMEDOUT" \in {res'[c].err, IF r' = c THEN ret'.err ELSE "0"}
         => now >= tm[c].at
  /\ r = NoCr /\ r' # NoCr /\ (lastPoll' # lastPoll \/ ready = <<>>)
       => \A c \in Range(timers') : tm'[c].at > now

\* A step that touches no timer and is not a poll.
LEMMA QuietTimers ==
  ASSUME TimersSorted, UNCHANGED <<timers, tm>>,
         r # NoCr \/ r' = NoCr \/ (lastPoll' = lastPoll /\ ready # <<>>)
  PROVE  TimersSorted' /\ OnTime
<1>1. TimersSorted'
  BY DEF TimersSorted
<1>2. OnTime
  BY DEF OnTime
<1> QED BY <1>1, <1>2

\* A running coroutine sets its timer.
LEMMA SetTimerOnTime ==
  ASSUME IInv, TimersSorted, Alive, NEW c \in Crs, r = c, NEW n \in Nat, NEW d \in Int,
         SetTimer(c, n, d)
  PROVE  TimersSorted' /\ OnTime
<1>1. TypeOK /\ c \notin Range(timers) /\ r # NoCr
  BY SchedAssumption DEF IInv, ReadyQueueSound
<1>2. TimersSorted'
  BY <1>1, SetTimerSorted
<1>3. Range(timers) \subseteq Range(timers')
  BY <1>1, SetTimerFacts
<1>4. OnTime
  BY <1>1, <1>3 DEF OnTime
<1> QED BY <1>2, <1>4

\* A running coroutine cancels others and gives up the CPU.
LEMMA CancelOnTime ==
  ASSUME IInv, TimersSorted, r # NoCr, r' = NoCr,
         NEW q \in Seq(Crs), NEW f \in [Crs -> Results], DoCancel(q, f),
         \A x \in Crs : f[x].err # "ETIMEDOUT"
  PROVE  TimersSorted' /\ OnTime
<1>1. TypeOK /\ timers \in Seq(Crs) /\ NoCr \notin Crs
  BY SchedAssumption DEF IInv, TypeOK
<1>2. CASE Range(q) \cap Range(ready) # {}
  <2>1. UNCHANGED <<timers, tm>>
    BY <1>2 DEF DoCancel
  <2> QED BY <2>1, QuietTimers
<1>3. CASE Range(q) \cap Range(ready) = {}
  <2>1. CancelClauses(Range(q)) /\ Resume(q, f)
    BY <1>3 DEF DoCancel
  <2>2. TimersSorted' /\ Range(timers') = Range(timers) \ Range(q)
    BY <1>1, <2>1, CancelSorted, CancelClausesFacts
  <2>3. \A x \in Crs : x \in Range(q) => res'[x] = f[x]
    BY <2>1 DEF Resume
  <2>4. Range(timers) \subseteq Crs
    BY <1>1, RangeDef
  <2>5. ASSUME NEW c \in Range(timers) \ Range(timers')
        PROVE  "ETIMEDOUT" \notin {res'[c].err, IF r' = c THEN ret'.err ELSE "0"}
    <3>1. c \in Crs /\ res'[c].err # "ETIMEDOUT" /\ r' # c
      BY <1>1, <2>2, <2>3, <2>4
    <3> QED BY <3>1
  <2> QED BY <2>2, <2>5 DEF OnTime
<1> QED BY <1>2, <1>3

\* The loop of dill_bundle_close: ECANCELED is what the others are told.
LEMMA CloseRestOnTime ==
  ASSUME IInv, TimersSorted, NEW c \in Crs, r = c,
         NEW b, NEW q \in Seq(Crs), NEW F, CloseRest(c, b, q, F)
  PROVE  TimersSorted' /\ OnTime
<1>1. r # NoCr
  BY SchedAssumption
<1>2. CASE q # <<>> /\ IsBlocked(Head(q))
  <2> DEFINE d == Head(q)
             g == <<d>>
             f == [x \in Crs |-> Result(-1, "ECANCELED")]
  <2>1. DoCancel(g, f) /\ r' = NoCr
    BY <1>2 DEF CloseRest, DoCancelOne, Suspend
  <2>2. d \in Crs
    BY <1>2, RangeTail
  <2>3. g \in Seq(Crs) /\ f \in [Crs -> Results] /\ \A x \in Crs : f[x].err # "ETIMEDOUT"
    BY <2>2, ResultTypes DEF Result
  <2> HIDE DEF g, f
  <2> QED BY <1>1, <2>1, <2>3, CancelOnTime
<1>3. CASE ~(q # <<>> /\ IsBlocked(Head(q)))
  <2>1. UNCHANGED <<timers, tm>>
    BY <1>3 DEF CloseRest
  <2> QED BY <1>1, <2>1, QuietTimers
<1> QED BY <1>2, <1>3

\* dill_epilogue: those it wakes up are told of no timeout.
LEMMA ReturnOnTime ==
  ASSUME IInv, TimersSorted, NEW c \in Crs, Return(c)
  PROVE  TimersSorted' /\ OnTime
<1> DEFINE b == BundleOf(c)
           freed == c \notin nb1
           closers == IF closer[c] # NoCr THEN <<closer[c]>> ELSE <<>>
           waiters == IF freed /\ IsLast(c, b) /\ waiter[b] # NoCr
                      THEN <<waiter[b]>> ELSE <<>>
           q == closers \o waiters
           f == [x \in Crs |-> Result(IF x = closer[c] THEN -1 ELSE 0, "0")]
<1>1. Alive /\ r = c /\ c # Main /\ r' = NoCr /\ DoCancel(q, f)
  BY DEF Return, User, Running, Suspend
<1>2. /\ closer \in [Crs -> Ptr] /\ waiter \in [Bundles -> Ptr] /\ NoCr \notin Crs
      /\ c \in live
  BY <1>1, SchedAssumption DEF IInv, TypeOK, ReadyQueueSound
<1>3. b \in Bundles /\ <<>> \in Seq(Crs)
  BY <1>1, <1>2, BundleOfFacts
<1>4. closers \in Seq(Crs)
  <2>1. closer[c] # NoCr => closer[c] \in Crs
    BY <1>2 DEF Ptr
  <2> QED BY <1>3, <2>1
<1>5. waiters \in Seq(Crs)
  <2>1. waiter[b] # NoCr => waiter[b] \in Crs
    BY <1>2, <1>3 DEF Ptr
  <2> HIDE DEF b
  <2> QED BY <1>3, <2>1
<1>6. f \in [Crs -> Results] /\ \A x \in Crs : f[x].err # "ETIMEDOUT"
  BY DEF Result, Results, Errors
<1> HIDE DEF closers, waiters, f, b
<1>7. q \in Seq(Crs)
  BY <1>4, <1>5, RangeConcat
<1> HIDE DEF q
<1> QED BY <1>1, <1>2, <1>6, <1>7, CancelOnTime

\* dill_wait with a poll fires the timers whose deadline is reached, all of them
\* and no others.
LEMMA PollOnTime ==
  ASSUME IInv, TimersSorted, PollAndRun
  PROVE  TimersSorted' /\ OnTime
<1>1. /\ TypeOK /\ timers \in Seq(Crs) /\ now \in Nat
      /\ tm \in [Crs -> [at : Nat, id : Nat]]
  BY DEF IInv, TypeOK
<1>2. \A c \in Range(timers) : c \in Range(Due) <=> tm[c].at <= now
  BY <1>1, DueExact
<1>3. Range(timers) \subseteq Crs /\ Range(Due) \subseteq Range(timers)
  BY <1>1, RangeDef, DueFacts
<1>4. Range(Due) \cap Range(ready) = {}
  BY <1>3 DEF PollAndRun, IInv, ReadyQueueSound
<1>5. CancelClauses(Range(Due))
  BY <1>4 DEF PollAndRun
<1>6. TimersSorted' /\ Range(timers') = Range(timers) \ Range(Due)
  BY <1>1, <1>5, CancelSorted, CancelClausesFacts
<1>7. \A c \in Crs : c \notin Range(Due) => tm'[c] = tm[c]
  BY <1>5 DEF CancelClauses
<1>8. \A c \in Range(timers) \ Range(timers') : now >= tm[c].at
  BY <1>1, <1>2, <1>3, <1>6
<1>9. \A c \in Range(timers') : tm'[c].at > now
  <2> SUFFICES ASSUME NEW c \in Range(timers') PROVE tm'[c].at > now
    OBVIOUS
  <2>1. c \in Crs /\ c \in Range(timers) /\ c \notin Range(Due) /\ tm'[c] = tm[c]
    BY <1>3, <1>6, <1>7
  <2>2. tm[c].at \in Nat
    BY <1>1, <2>1
  <2> QED BY <1>1, <1>2, <2>1, <2>2
<1> QED BY <1>6, <1>8, <1>9 DEF OnTime

\* One case per action.
LEMMA StepOnTime ==
  ASSUME IInv, TimersSorted, Next PROVE TimersSorted' /\ OnTime
<1>1. CASE Kernel
  <2>1. CASE RunReady
    BY <2>1, QuietTimers DEF RunReady, MustPoll
  <2>2. CASE PollAndRun
    BY <2>2, PollOnTime
  <2>3. CASE Tick
    BY <2>3, QuietTimers DEF Tick
  <2>4. CASE Crashed
    <3>1. UNCHANGED <<timers, tm, r>>
      BY <2>4 DEF Crashed, schedVars
    <3> QED BY <3>1, QuietTimers
  <2> QED BY <1>1, <2>1, <2>2, <2>3, <2>4 DEF Kernel
<1>2. ASSUME NEW c \in Crs, UserStep(c) PROVE TimersSorted' /\ OnTime
  <2>1. Alive /\ r = c /\ r # NoCr
    BY <1>2, SchedAssumption DEF UserStep, Bundle, Go, BundleGo, Yield, Msleep, BundleWait,
       BundleWaitReturn, Hclose, HcloseResume, Return, User, Running
  <2>2. /\ crs \in [Bundles -> Seq(Crs)] /\ call \in [Crs -> Frames] /\ now \in Nat
    BY DEF IInv, TypeOK
  <2>3. CASE \/ \E b \in Bundles : Bundle(c, b)
             \/ \E b \in Bundles, d \in Crs : Go(c, b, d) \/ BundleGo(c, b, d)
             \/ Yield(c) \/ BundleWaitReturn(c)
    <3>1. UNCHANGED <<timers, tm>>
      BY <2>3 DEF Bundle, Go, BundleGo, Launch, Yield, BundleWaitReturn, schedVars
    <3> QED BY <2>1, <3>1, QuietTimers
  <2>4. ASSUME NEW delay \in SleepDelays \cup WaitDelays, SetTimer(c, 1, Deadline(delay))
        PROVE  TimersSorted' /\ OnTime
    <3>1. Deadline(delay) \in Int
      BY <2>2, CrAssumption DEF Deadline, Forever
    <3> QED BY <2>1, <2>4, <3>1, SetTimerOnTime
  <2>5. CASE \E delay \in SleepDelays : Msleep(c, delay)
    BY <2>4, <2>5 DEF Msleep
  <2>6. CASE \E b \in Bundles, delay \in WaitDelays : BundleWait(c, b, delay)
    BY <2>4, <2>6 DEF BundleWait
  <2>7. ASSUME NEW b \in Bundles, Hclose(c, b) PROVE TimersSorted' /\ OnTime
    <3>1. CloseRest(c, b, crs[b], {}) /\ crs[b] \in Seq(Crs)
      BY <2>2, <2>7 DEF Hclose
    <3> QED BY <2>1, <3>1, CloseRestOnTime
  <2>8. CASE HcloseResume(c)
    <3>1. CASE ret # Result(-1, "0")
      <4>1. UNCHANGED <<timers, tm>>
        BY <2>8, <3>1 DEF HcloseResume
      <4> QED BY <2>1, <4>1, QuietTimers
    <3>2. CASE ret = Result(-1, "0")
      <4>1. CloseRest(c, call[c].b, RestOf(call[c].b), {call[c].cur}) /\ call[c].op = "close"
        BY <2>8, <3>2 DEF HcloseResume
      <4>2. call[c].b \in Bundles /\ crs[call[c].b] # <<>>
        BY <2>1, <2>2, <4>1, FrameTypes DEF IInv, CloseCoherent
      <4>3. RestOf(call[c].b) \in Seq(Crs)
        BY <2>2, <4>2, RangeTail DEF RestOf
      <4> QED BY <2>1, <4>1, <4>3, CloseRestOnTime
    <3> QED BY <3>1, <3>2
  <2>9. CASE Return(c)
    BY <2>9, ReturnOnTime
  <2> QED BY <1>2, <2>3, <2>5, <2>6, <2>7, <2>8, <2>9 DEF UserStep
<1> QED BY <1>1, <1>2 DEF Next

\* Timers are on time (TimersOnTime): nobody is told of a timeout before its
\* deadline, and a dill_wait that polls leaves no expired timer behind. The
\* kernel looks at the first timers only, so this needs their order.
THEOREM Punctual == Spec => TimersOnTime
<1>1. Init => TimersSorted
  BY DEF Init, SchedInit, TimersSorted
<1>2. IInv /\ TimersSorted /\ [Next]_vars => TimersSorted'
  <2>1. CASE UNCHANGED vars
    BY <2>1 DEF vars, schedVars, TimersSorted
  <2> QED BY <2>1, StepOnTime
<1>3. IInv /\ TimersSorted /\ [Next]_vars => [OnTime]_vars
  BY StepOnTime
<1>4. [OnTime]_vars =>
      [/\ \A c \in Range(timers) \ Range(timers') :
            "ETIMEDOUT" \in {res'[c].err, IF r' = c THEN ret'.err ELSE "0"}
              => now >= tm[c].at
       /\ r = NoCr /\ r' # NoCr /\ (lastPoll' # lastPoll \/ ready = <<>>)
            => \A c \in Range(timers') : tm'[c].at > now]_vars
  BY DEF OnTime
<1> QED BY <1>1, <1>2, <1>3, <1>4, Invariance, PTL DEF Spec, TimersOnTime
=============================================================================
