--------------------------------- MODULE Now ---------------------------------
(***************************************************************************)
(* The clock: now.c on x86, where the time of the last query is reused     *)
(* until the cycle counter has moved on by a million cycles. Each CPU has  *)
(* a cycle counter of its own; a thread that migrates may see it jump, in  *)
(* either direction.                                                       *)
(***************************************************************************)
EXTENDS Integers, FiniteSets

CONSTANTS
  Window,     \* the 1,000,000 cycles, in some unit
  Speed,      \* cycles per millisecond, in the same unit
  Skews,      \* what the counters of the CPUs are ahead of the first one
  MaxCycles   \* bound: the machine stops here

ASSUME NowAssumption ==
  /\ Window \in Nat \ {0} /\ Speed \in Nat \ {0} /\ MaxCycles \in Nat
  /\ Skews \subseteq Int /\ 0 \in Skews
  /\ IsFiniteSet(Skews)       \* a machine has so many CPUs

VARIABLES
  cycles,     \* cycles of the first CPU since the start
  skew,       \* the CPU the thread is on
  last_time,  \* ctx->last_time
  last_tsc,   \* ctx->last_tsc
  answer      \* what dill_now() returned last

nowVars == <<cycles, skew, last_time, last_tsc, answer>>

\* dill_mnow: the monotonic clock of the system.
Mnow == cycles \div Speed
Rdtsc == cycles + skew
Abs(n) == IF n < 0 THEN -n ELSE n

\* dill_ctx_now_init.
NowInit ==
  /\ cycles = 0 /\ skew = 0
  /\ last_time = Mnow /\ last_tsc = Rdtsc
  /\ answer = Mnow

\* The cached time is good enough. (The difference is signed; its absolute
\* value is compared.)
Recent == Abs(Rdtsc - last_tsc) < Window

\* dill_now.
DillNowSliding ==
  /\ last_tsc' = Rdtsc
  /\ last_time' = IF Recent THEN last_time ELSE Mnow
  /\ answer' = last_time'
  /\ UNCHANGED <<cycles, skew>>
DillNow ==
  /\ IF Recent THEN answer' = last_time /\ UNCHANGED <<last_time, last_tsc>>
     ELSE /\ last_tsc' = Rdtsc
          /\ last_time' = Mnow
          /\ answer' = Mnow
  /\ UNCHANGED <<cycles, skew>>

\* Time passes, and the thread may be moved to another CPU (external).
Cycle == cycles < MaxCycles /\ cycles' = cycles + 1
         /\ UNCHANGED <<skew, last_time, last_tsc, answer>>
Migrate(k) == skew' = k /\ UNCHANGED <<cycles, last_time, last_tsc, answer>>

NowNext == DillNow \/ Cycle \/ \E k \in Skews : Migrate(k)

NowSpec == NowInit /\ [][NowNext]_nowVars

-----------------------------------------------------------------------------
MaxSkew == CHOOSE d \in {Abs(a - b) : a, b \in Skews} :
              \A a, b \in Skews : Abs(a - b) <= d

\* Time as dill_now() tells it does not run backwards, whatever the cycle
\* counter does, and an answer from the cache lags behind the clock of the
\* system by no more than the window and the disagreement between the counters
\* allow: deadlines are late by that much at most.
TimeSane ==
  /\ [](Recent => Mnow - last_time <= 1 + (Window + MaxSkew) \div Speed)
  /\ [][answer' >= answer]_nowVars
=============================================================================
