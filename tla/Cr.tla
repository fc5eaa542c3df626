---------------------------------- MODULE Cr ----------------------------------
(***************************************************************************)
(* Coroutines and bundles: cr.c on top of the kernel of module Sched, with *)
(* dill_msleep of libdill.c and the no_blocking bracket of dill_hclose.    *)
(*                                                                         *)
(* The program is any program that keeps to structured concurrency:        *)
(*   - the coroutine that made a bundle is the one that waits for it and   *)
(*     closes it, and it closes all its bundles before it returns;         *)
(*   - handles are not used after they were closed.                        *)
(* The constants say which programs of this kind a run looks at.           *)
(***************************************************************************)
EXTENDS Sched

CONSTANTS
  Bundles,      \* struct dill_bundle, by address
  NoBundle,
  Owners,       \* the coroutines that create bundles
  SleepDelays,  \* deadlines given to msleep, in ticks from now (-1: never)
  WaitDelays,   \* deadlines given to bundle_wait
  Foreign       \* may a coroutine launch into a bundle that is not its own?

ASSUME CrAssumption ==
  /\ NoBundle \notin Bundles
  /\ Owners \subseteq Crs
  /\ SleepDelays \subseteq Int /\ WaitDelays \subseteq Int
  /\ Foreign \in BOOLEAN
  /\ PollPeriod <= MaxTime

\* Bound: the clock goes on long enough after the last deadline for the poll
\* that must notice it.
LastDeadline == MaxTime - PollPeriod

VARIABLES
  live,    \* coroutines whose stack is allocated
  done,    \* dill_cr::done
  closer,  \* dill_cr::closer
  call,    \* the libdill call a coroutine is inside of, if it has more to do
  owner,   \* the coroutine holding the bundle's handle; NoCr: no such bundle
  crs,     \* dill_bundle::crs
  waiter   \* dill_bundle::waiter: the coroutine whose clause it points to

crVars == <<live, done, closer, call, owner, crs, waiter>>
vars == <<schedVars, crVars>>

\* What is on the stack of a coroutine: nothing of libdill that goes on after
\* dill_wait returns ("none": user code, dill_yield, dill_msleep, go), or
\* dill_bundle_wait(b), or dill_hclose(b) having reached coroutine cur, or a
\* blocking call of another module ("ext": a channel, a file descriptor).
Idle == [op |-> "none", b |-> NoBundle, cur |-> NoCr]
InWait(b) == [op |-> "wait", b |-> b, cur |-> NoCr]
InClose(b, c) == [op |-> "close", b |-> b, cur |-> c]
InExt == [op |-> "ext", b |-> NoBundle, cur |-> NoCr]

Init ==
  /\ SchedInit
  /\ live = {Main}
  /\ done = {}
  /\ closer = [c \in Crs |-> NoCr]
  /\ call = [c \in Crs |-> Idle]
  /\ owner = [b \in Bundles |-> NoCr]
  /\ crs = [b \in Bundles |-> <<>>]
  /\ waiter = [b \in Bundles |-> NoCr]

Open(b) == owner[b] # NoCr

\* c runs code of the user.
User(c) == Running(c) /\ call[c] = Idle

BundleOf(c) == CHOOSE b \in Bundles : c \in Range(crs[b])

-----------------------------------------------------------------------------
(***************************************************************************)
(* Creating coroutines.                                                    *)
(***************************************************************************)

\* dill_bundle.
Bundle(c, b) ==
  /\ User(c) /\ c \in Owners /\ CanBlock(c)
  /\ ~Open(b)
  /\ owner' = [owner EXCEPT ![b] = c]
  /\ UNCHANGED <<schedVars, live, done, closer, call, crs, waiter>>

\* The common end of dill_prologue: coroutine d joins bundle b and runs at
\* once, its parent c goes to the ready queue.
Launch(c, b, d) ==
  /\ d \notin live
  /\ live' = live \cup {d}
  /\ crs' = [crs EXCEPT ![b] = Append(@, d)]
  /\ Resume(<<c>>, [x \in Crs |-> NoResult])
  /\ r' = d
  /\ ret' = NoResult
  /\ UNCHANGED <<timers, tm, wq, nb1, now, lastPoll, abort,
                 done, closer, call, waiter>>

\* go(): a coroutine in a bundle of its own.
Go(c, b, d) ==
  /\ User(c) /\ c \in Owners /\ CanBlock(c)
  /\ ~Open(b)
  /\ owner' = [owner EXCEPT ![b] = c]
  /\ Launch(c, b, d)

\* bundle_go(): a coroutine in an existing bundle.
BundleGo(c, b, d) ==
  /\ User(c) /\ CanBlock(c)
  /\ Open(b)
  /\ Foreign \/ c = owner[b] \/ c \in Range(crs[b])
  /\ Launch(c, b, d)
  /\ UNCHANGED owner

-----------------------------------------------------------------------------
(***************************************************************************)
(* Blocking calls.                                                         *)
(***************************************************************************)

\* dill_yield.
Yield(c) ==
  /\ User(c) /\ CanBlock(c)
  /\ Resume(<<c>>, [x \in Crs |-> NoResult])
  /\ Suspend
  /\ UNCHANGED <<timers, tm, wq, nb1, now, lastPoll, abort, crVars>>

\* dill_msleep.
Msleep(c, delay) ==
  /\ User(c) /\ CanBlock(c)
  /\ Deadline(delay) <= LastDeadline
  /\ SetTimer(c, 1, Deadline(delay))
  /\ Suspend
  /\ UNCHANGED <<ready, res, wq, nb1, now, lastPoll, abort, crVars>>

\* dill_bundle_wait, if there is something to wait for. With an empty bundle
\* it returns at once and changes nothing.
BundleWait(c, b, delay) ==
  /\ User(c) /\ CanBlock(c)
  /\ owner[b] = c
  /\ crs[b] # <<>>
  /\ Deadline(delay) <= LastDeadline
  /\ waiter' = [waiter EXCEPT ![b] = c]
  /\ SetTimer(c, 1, Deadline(delay))
  /\ call' = [call EXCEPT ![c] = InWait(b)]
  /\ Suspend
  /\ UNCHANGED <<ready, res, wq, nb1, now, lastPoll, abort,
                 live, done, closer, owner, crs>>

\* The rest of dill_bundle_wait, after dill_wait returned.
BundleWaitReturn(c) ==
  /\ Running(c) /\ call[c].op = "wait"
  /\ waiter' = [waiter EXCEPT ![call[c].b] = NoCr]
  /\ call' = [call EXCEPT ![c] = Idle]
  /\ abort' = IF ret.id \in {-1, 0, 1} THEN abort ELSE "bundle_wait"
  /\ UNCHANGED <<r, ret, ready, res, timers, tm, wq, nb1, now, lastPoll,
                 live, done, closer, owner, crs>>

-----------------------------------------------------------------------------
(***************************************************************************)
(* Closing a bundle.                                                       *)
(***************************************************************************)

\* The test in dill_cr_close for a coroutine that is blocked.
IsBlockedUnchecked(d) == TRUE
IsBlocked(d) == d \notin Range(ready)

\* dill_cr::closer after c has begun to wait for d; F has been deallocated.
CloserAfterForgets(c, d, F) == [x \in Crs |-> IF x \in F THEN NoCr ELSE closer[x]]
CloserAfter(c, d, F) ==
  [x \in Crs |-> IF x = d THEN c ELSE IF x \in F THEN NoCr ELSE closer[x]]

\* The loop of dill_bundle_close from coroutine Head(q) on, F being the
\* coroutine the loop has just finished with (its stack is deallocated).
\* dill_cr_close: the coroutine may not block any more, it is woken up if it
\* was blocked, and the caller c waits for it to finish. At the end of the
\* list the bundle is deallocated and dill_hclose returns.
CloseRest(c, b, q, F) ==
  /\ live' = live \ F
  /\ done' = done \ F
  /\ crs' = [crs EXCEPT ![b] = q]
  /\ IF q # <<>>
     THEN /\ nb1' = (nb1 \ F) \cup {Head(q)}
          /\ IF IsBlocked(Head(q))
             THEN DoCancelOne(Head(q), -1, "ECANCELED")
             ELSE UNCHANGED <<ready, res, timers, tm, wq, abort>>
          /\ closer' = CloserAfter(c, Head(q), F)
          /\ call' = [call EXCEPT ![c] = InClose(b, Head(q))]
          /\ Suspend
          /\ UNCHANGED <<owner, waiter>>
     ELSE /\ nb1' = nb1 \ F
          /\ closer' = CloserAfter(NoCr, NoCr, F)
          /\ owner' = [owner EXCEPT ![b] = NoCr]
          /\ waiter' = [waiter EXCEPT ![b] = NoCr]
          /\ call' = [call EXCEPT ![c] = Idle]
          /\ UNCHANGED <<r, ret, ready, res, timers, tm, wq, abort>>
  /\ UNCHANGED <<now, lastPoll>>

\* dill_hclose of a bundle. It is not a blocking call: it works in a coroutine
\* that is being closed itself.
Hclose(c, b) ==
  /\ User(c)
  /\ owner[b] = c
  /\ CloseRest(c, b, crs[b], {})

\* What is behind the first coroutine on the list: dill_list_next(it).
RestOfNothing(b) == <<>>
RestOf(b) == Tail(crs[b])

\* dill_cr_close goes on after its dill_wait: the assertions on the result,
\* then the next coroutine of the bundle.
HcloseResume(c) ==
  /\ Running(c) /\ call[c].op = "close"
  /\ IF ret # Result(-1, "0")
     THEN /\ abort' = "cr_close"
          /\ UNCHANGED <<r, ret, ready, res, timers, tm, wq, nb1,
                         now, lastPoll, crVars>>
     ELSE CloseRest(c, call[c].b, RestOf(call[c].b), {call[c].cur})

-----------------------------------------------------------------------------
\* dill_list_oneitem: c is the last coroutine of its bundle.
IsLastAfterErase(c, b) == Without(crs[b], {c}) = <<c>>
IsLast(c, b) == crs[b] = <<c>>

\* dill_epilogue: the coroutine function returns. Whoever closes this
\* coroutine is woken up. Otherwise the coroutine leaves its bundle, waking
\* up the one in bundle_wait if it was the last, and frees its own stack.
Return(c) ==
  /\ User(c) /\ c # Main
  /\ \A b \in Bundles : owner[b] # c
  /\ LET b == BundleOf(c)
         freed == c \notin nb1
         closers == IF closer[c] # NoCr THEN <<closer[c]>> ELSE <<>>
         waiters == IF freed /\ IsLast(c, b) /\ waiter[b] # NoCr
                    THEN <<waiter[b]>> ELSE <<>>
     IN /\ DoCancel(closers \o waiters,
                    [x \in Crs |-> Result(IF x = closer[c] THEN -1 ELSE 0, "0")])
        /\ done' = IF freed THEN done ELSE done \cup {c}
        /\ live' = IF freed THEN live \ {c} ELSE live
        /\ crs' = IF freed THEN [crs EXCEPT ![b] = Without(@, {c})] ELSE crs
  /\ Suspend
  /\ UNCHANGED <<nb1, now, lastPoll, closer, call, owner, waiter>>

-----------------------------------------------------------------------------
Kernel ==
  \/ RunReady /\ UNCHANGED crVars
  \/ PollAndRun /\ UNCHANGED crVars
  \/ Tick /\ UNCHANGED crVars
  \/ Crashed /\ UNCHANGED crVars

UserStep(c) ==
  \/ \E b \in Bundles : Bundle(c, b)
  \/ \E b \in Bundles, d \in Crs : Go(c, b, d)
  \/ \E b \in Bundles, d \in Crs : BundleGo(c, b, d)
  \/ Yield(c)
  \/ \E delay \in SleepDelays : Msleep(c, delay)
  \/ \E b \in Bundles, delay \in WaitDelays : BundleWait(c, b, delay)
  \/ BundleWaitReturn(c)
  \/ \E b \in Bundles : Hclose(c, b)
  \/ HcloseResume(c)
  \/ Return(c)

Next == Kernel \/ \E c \in Crs : UserStep(c)

Spec == Init /\ [][Next]_vars

(***************************************************************************)
(* Fairness. The kernel runs whenever the CPU is given up; the clock goes  *)
(* on whatever the program does (so strong fairness: the kernel looks at   *)
(* it only now and then); no coroutine computes for ever: it takes its     *)
(* next step, and while it may block it yields sooner or later. A coroutine*)
(* being closed cannot block, all it can do is to close its own bundles    *)
(* and return.                                                             *)
(***************************************************************************)
Fairness ==
  /\ WF_vars((RunReady \/ PollAndRun) /\ UNCHANGED crVars)
  /\ SF_vars(Tick /\ UNCHANGED crVars)
  /\ \A c \in Crs : WF_vars(UserStep(c)) /\ WF_vars(Yield(c))

FairSpec == Spec /\ Fairness

-----------------------------------------------------------------------------
(***************************************************************************)
(* Properties.                                                             *)
(***************************************************************************)
Results == [id : Int, err : Errors]
Ptr == Crs \cup {NoCr}
Frames == {Idle, InExt} \cup {InWait(b) : b \in Bundles}
                  \cup {InClose(b, c) : b \in Bundles, c \in Crs}

\* Every variable has its type.
TypeOK ==
  /\ r \in Ptr
  /\ ret \in Results
  /\ ready \in Seq(Crs)
  /\ res \in [Crs -> Results]
  /\ timers \in Seq(Crs)
  /\ tm \in [Crs -> [at : Nat, id : Nat]]
  /\ wq \in [Endpoints -> Seq(Crs)]
  /\ nb1 \subseteq Crs
  /\ now \in Nat
  /\ lastPoll \in Nat
  /\ abort \in {"none", "docancel", "bundle_wait", "cr_close", "pollset"}
  /\ live \subseteq Crs
  /\ done \subseteq Crs
  /\ closer \in [Crs -> Ptr]
  /\ call \in [Crs -> Frames]
  /\ owner \in [Bundles -> Ptr]
  /\ crs \in [Bundles -> Seq(Crs)]
  /\ waiter \in [Bundles -> Ptr]

\* The single-link ready queue is never corrupted: dill_resume never links a
\* coroutine that is queued already, the running one is not queued, and what
\* is queued or runs has an allocated stack, has not finished and has no timer
\* left that could queue it a second time.
ReadyQueueSound ==
  Alive =>
  /\ NoDup(ready) /\ NoDup(timers)
  /\ r \notin Range(ready) \cup Range(timers)
  /\ Range(ready) \cap Range(timers) = {}
  /\ Range(ready) \cup Range(timers) \cup ({r} \ {NoCr}) \subseteq live \ done

\* Structured concurrency: at all times a live coroutine other than main is on
\* the list of exactly one bundle, whose handle is still open, so closing the
\* bundle (dill_bundle_close) cannot miss it; and the lists hold nothing else.
NoOrphans ==
  Alive =>
  /\ Main \in live
  /\ \A c \in live \ {Main} : \E b \in Bundles : c \in Range(crs[b])
  /\ \A b \in Bundles :
        /\ NoDup(crs[b])
        /\ Range(crs[b]) \subseteq live \ {Main, owner[b]}
        /\ ~Open(b) => crs[b] = <<>>
        /\ \A a \in Bundles \ {b} : Range(crs[a]) \cap Range(crs[b]) = {}

\* The pointers that dill_cr_close relies on: a coroutine is being closed iff
\* it has a closer, the closer is inside hclose() and has reached it, and it is
\* the first one on the list of the closer's bundle.
CloseCoherent ==
  Alive =>
  /\ done \subseteq nb1 /\ nb1 \subseteq live
  /\ \A d \in Crs : d \in nb1 <=> closer[d] # NoCr
  /\ \A d \in nb1 : call[closer[d]].op = "close" /\ call[closer[d]].cur = d
  /\ \A c \in Crs : call[c].op = "close" =>
        /\ owner[call[c].b] = c
        /\ crs[call[c].b] # <<>>
        /\ Head(crs[call[c].b]) = call[c].cur
        /\ closer[call[c].cur] = c

\* dill_bundle::waiter points to the clause of a coroutine that is inside
\* bundle_wait(), never to a dead stack frame, and the owner of the bundle is
\* always a live coroutine.
WaitCoherent ==
  Alive =>
  /\ \A c \in Crs : call[c].op = "wait" =>
        owner[call[c].b] = c /\ waiter[call[c].b] = c
  /\ \A b \in Bundles : waiter[b] # NoCr =>
        call[waiter[b]].op = "wait" /\ call[waiter[b]].b = b
  /\ \A b \in Bundles : owner[b] # NoCr => owner[b] \in live \ done

\* A coroutine being closed never blocks again, the promise on which the
\* dill_wait in dill_cr_close rests ("not really a blocking call"): until it
\* has finished, it runs, is queued to run, or waits for its own children.
CanceledNeverBlocks ==
  Alive => \A c \in nb1 \ done : Suspended(c) => call[c].op = "close"

\* A coroutine in hclose() that does not run is waiting for a coroutine that
\* has not finished yet and will wake it up.
CloseNotForgotten ==
  Alive => \A c \in Crs :
     call[c].op = "close" /\ Suspended(c) =>
        call[c].cur \notin done /\ closer[call[c].cur] = c

\* A coroutine in bundle_wait() that does not run waits for a bundle which is
\* not empty and whose waiter pointer leads to it: the last coroutine of the
\* bundle will wake it up.
WaitNotForgotten ==
  Alive => \A c \in Crs :
     call[c].op = "wait" /\ Suspended(c) =>
        waiter[call[c].b] = c /\ crs[call[c].b] # <<>>

\* dill_cr_close comes back from its dill_wait with the result it asserts only
\* when the coroutine it waited for has finished: bundle_close, which goes on
\* to deallocate that coroutine's stack, never frees a stack still in use.
FreedOnlyFinished ==
  Alive => \A c \in Crs :
     call[c].op = "close" =>
        /\ c \in Range(ready) /\ res[c] = Result(-1, "0") => call[c].cur \in done
        /\ r = c /\ ret = Result(-1, "0") => call[c].cur \in done

\* The inductive invariant behind all of them.
IInv ==
  /\ TypeOK
  /\ ReadyQueueSound
  /\ NoOrphans
  /\ CloseCoherent
  /\ WaitCoherent
  /\ CanceledNeverBlocks
  /\ CloseNotForgotten
  /\ WaitNotForgotten
  /\ FreedOnlyFinished

\* No assertion of cr.c fails.
NoAbort == Alive

\* dill_docancel: "Sanity check: Make sure that the coroutine was really
\* suspended."
WokenWasSuspended == abort # "docancel"

\* dill_cr_close: "This assertion triggers when coroutine tries to close a
\* bundle that it is part of." It triggers for no other reason.
OnlySelfCloseAborts ==
  abort = "cr_close" => r \in Range(crs[call[r].b])

\* A timer is neither early nor overlooked: a coroutine is resumed with
\* ETIMEDOUT only at or after its deadline, and when dill_wait has polled no
\* expired timer is left behind.
TimersOnTime ==
  [][/\ \A c \in Range(timers) \ Range(timers') :
          "ETIMEDOUT" \in {res'[c].err, IF r' = c THEN ret'.err ELSE "0"}
            => now >= tm[c].at
     /\ r = NoCr /\ r' # NoCr /\ (lastPoll' # lastPoll \/ ready = <<>>)
          => \A c \in Range(timers') : tm'[c].at > now]_vars

\* hclose() comes back, whatever the coroutines of the bundle were doing.
CloseCompletes ==
  \A c \in Crs : (call[c].op = "close") ~> (call[c].op # "close")

\* No coroutine starves in the ready queue.
ReadyRuns == \A c \in Crs : (c \in Range(ready)) ~> (r = c)

\* A timer fires although other coroutines keep the ready queue busy for ever
\* ("we'll do it at least once a second").
TimersFire == \A c \in Crs : (c \in Range(timers)) ~> (c \notin Range(timers))

\* Nobody waits for ever who waits for the scheduler, for a time to come or for
\* coroutines it has canceled, although the others may run for ever.
Progress == CloseCompletes /\ ReadyRuns /\ TimersFire
=============================================================================
