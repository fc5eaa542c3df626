-------------------------------- MODULE Sched --------------------------------
(***************************************************************************)
(* The kernel of libdill: the part of cr.c that suspends and resumes       *)
(* coroutines. Exactly one coroutine runs at a time; it keeps the CPU      *)
(* until it calls dill_wait. The modules that extend this one (Cr for      *)
(* bundles, Chan for channels) add the operations that coroutines call.    *)
(*                                                                         *)
(* A blocked coroutine waits on clauses: at most one timer, and at most    *)
(* one clause in the waiting list of each endpoint (e.g. the list of       *)
(* receivers of a channel). Whatever triggers first removes all the other  *)
(* clauses of that coroutine (dill_docancel).                              *)
(***************************************************************************)
EXTENDS SeqOps

CONSTANTS
  Crs,         \* coroutines, named by the memory of their struct dill_cr
  Main,        \* dill_ctx_cr::main
  NoCr,        \* the NULL pointer
  Endpoints,   \* the waiting lists of the objects coroutines block on
  PollPeriod,  \* the 1000 ms of dill_wait, in ticks
  MaxTime      \* bound: the clock stops here

ASSUME SchedAssumption ==
  /\ Main \in Crs
  /\ NoCr \notin Crs
  /\ PollPeriod \in Nat
  /\ MaxTime \in Nat

VARIABLES
  r,         \* ctx->r; NoCr while no coroutine runs: inside dill_wait
  ret,       \* what dill_wait has just returned to r: its value and errno
  ready,     \* ctx->ready
  res,       \* dill_cr::id and dill_cr::err of the coroutines in ready
  timers,    \* ctx->timers in deadline order; equal deadlines keep their order
  tm,        \* deadline and clause id of a coroutine's dill_tmclause
  wq,        \* for each endpoint, the coroutines with a clause in its list
  nb1,       \* the coroutines with no_blocking1 set
  now,       \* dill_now()
  lastPoll,  \* ctx->last_poll
  abort      \* the dill_assert that ended the process, "none" while it lives

schedVars ==
  <<r, ret, ready, res, timers, tm, wq, nb1, now, lastPoll, abort>>

Errors == {"0", "ECANCELED", "ETIMEDOUT", "EPIPE", "EMSGSIZE"}
Result(id, err) == [id |-> id, err |-> err]
NoResult == Result(0, "0")
NoTimer == [at |-> 0, id |-> 0]
Forever == -1                      \* a negative deadline: no timer is set

SchedInit ==
  /\ r = Main
  /\ ret = NoResult
  /\ ready = <<>>
  /\ res = [c \in Crs |-> NoResult]
  /\ timers = <<>>
  /\ tm = [c \in Crs |-> NoTimer]
  /\ wq = [e \in Endpoints |-> <<>>]
  /\ nb1 = {}
  /\ now = 0
  /\ lastPoll = 0
  /\ abort = "none"

Alive == abort = "none"

\* c runs: it holds the CPU and no assertion has ended the process.
Running(c) == Alive /\ r = c

CanBlockAlways(c) == TRUE

\* dill_canblock: blocking calls of a coroutine being closed fail at once.
CanBlock(c) == c \notin nb1

\* c neither runs nor waits for its turn: its ready.next is NULL.
Suspended(c) == r # c /\ c \notin Range(ready)

ResumeLifo(q, result) ==
  /\ ready' = q \o ready
  /\ res' = [c \in Crs |-> IF c \in Range(q) THEN result[c] ELSE res[c]]

\* dill_resume for the coroutines of q in turn.
Resume(q, result) ==
  /\ ready' = ready \o q
  /\ res' = [c \in Crs |-> IF c \in Range(q) THEN result[c] ELSE res[c]]

CancelClausesKeepsTimers(S) ==
  /\ wq' = [e \in Endpoints |-> Without(wq[e], S)]
  /\ UNCHANGED <<timers, tm>>

CancelClausesKeepsLists(S) ==
  /\ timers' = Without(timers, S)
  /\ tm' = [c \in Crs |-> IF c \in S THEN NoTimer ELSE tm[c]]
  /\ UNCHANGED wq

\* The cancel callbacks of every clause of every coroutine of S. Afterwards
\* nothing can trigger these coroutines any more.
CancelClauses(S) ==
  /\ timers' = Without(timers, S)
  /\ tm' = [c \in Crs |-> IF c \in S THEN NoTimer ELSE tm[c]]
  /\ wq' = [e \in Endpoints |-> Without(wq[e], S)]

\* dill_docancel for the coroutines of q in turn: the assertion that the
\* coroutine was really suspended, its clauses, the ready queue.
DoCancel(q, result) ==
  IF Range(q) \cap Range(ready) # {}
  THEN /\ abort' = "docancel"
       /\ UNCHANGED <<ready, res, timers, tm, wq>>
  ELSE /\ CancelClauses(Range(q))
       /\ Resume(q, result)
       /\ UNCHANGED abort

DoCancelOneNoErr(c, id, err) == DoCancel(<<c>>, [x \in Crs |-> Result(id, "0")])

\* dill_cancel, and dill_trigger of a clause, of one coroutine.
DoCancelOne(c, id, err) == DoCancel(<<c>>, [x \in Crs |-> Result(id, err)])

\* dill_timer: the place of a new timer is behind all those not later than it.
TimerSlot(at) == 1 + Cardinality({i \in DOMAIN timers : tm[timers[i]].at <= at})

SetTimerAlways(c, id, deadline) ==
  /\ timers' = Append(timers, c)
  /\ tm' = [tm EXCEPT ![c] = [at |-> deadline, id |-> id]]

SetTimer(c, id, deadline) ==
  IF deadline < 0
  THEN UNCHANGED <<timers, tm>>
  ELSE LET k == TimerSlot(deadline) IN
       /\ timers' = SubSeq(timers, 1, k - 1) \o <<c>>
                      \o SubSeq(timers, k, Len(timers))
       /\ tm' = [tm EXCEPT ![c] = [at |-> deadline, id |-> id]]

\* The deadline a caller passes: so many ticks from now, or never.
Deadline(delay) == IF delay < 0 THEN Forever ELSE now + delay

\* The running coroutine calls dill_wait and gives up the CPU.
Suspend == r' = NoCr /\ ret' = NoResult

-----------------------------------------------------------------------------
(***************************************************************************)
(* dill_wait, from the moment the caller's registers are saved.            *)
(***************************************************************************)

\* Longjmp to the coroutine at the head of the queue q.
Jump(q, result) ==
  /\ r' = Head(q)
  /\ ready' = Tail(q)
  /\ ret' = result[Head(q)]
  /\ res' = [result EXCEPT ![Head(q)] = NoResult]

MustPollIdle == ready = <<>>

MustPoll == ready = <<>> \/ now > lastPoll + PollPeriod

\* Something is ready and the last poll is recent: no system call is made.
RunReady ==
  /\ Alive /\ r = NoCr
  /\ ~MustPoll
  /\ Jump(ready, res)
  /\ UNCHANGED <<timers, tm, wq, nb1, now, lastPoll, abort>>

DueLate == LET k == Cardinality({i \in DOMAIN timers : tm[timers[i]].at < now})
           IN  SubSeq(timers, 1, k)

\* The expired timers, first deadline first.
Due == LET k == Cardinality({i \in DOMAIN timers : tm[timers[i]].at <= now})
       IN  SubSeq(timers, 1, k)

\* The poll, blocking if nothing is ready. It ends when something was fired
\* or, in non-blocking mode, at once; until then time passes (Tick). Expired
\* timers wake their coroutines with ETIMEDOUT.
PollAndRun ==
  /\ Alive /\ r = NoCr
  /\ MustPoll
  /\ ready # <<>> \/ Due # <<>>
  /\ IF Range(Due) \cap Range(ready) # {}
     THEN /\ abort' = "docancel"
          /\ UNCHANGED <<r, ret, ready, res, timers, tm, wq, nb1, now, lastPoll>>
     ELSE /\ CancelClauses(Range(Due))
          /\ Jump(ready \o Due,
                  [c \in Crs |-> IF c \in Range(Due)
                                 THEN Result(tm[c].id, "ETIMEDOUT")
                                 ELSE res[c]])
          /\ lastPoll' = now
          /\ UNCHANGED <<nb1, now, abort>>

\* Time passes, in the poll or in the code that ran before dill_wait read the
\* clock.
Tick ==
  /\ Alive /\ r = NoCr
  /\ now < MaxTime
  /\ now' = now + 1
  /\ UNCHANGED <<r, ret, ready, res, timers, tm, wq, nb1, lastPoll, abort>>

\* A failed dill_assert ends the process.
Crashed == ~Alive /\ UNCHANGED schedVars
=============================================================================
