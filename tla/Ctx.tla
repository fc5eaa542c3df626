--------------------------------- MODULE Ctx ---------------------------------
(***************************************************************************)
(* The context of a thread, made on first use and destroyed when the       *)
(* thread ends: ctx.c with threads, in its two variants (a thread-local    *)
(* variable; memory found through a pthread key). A pthread destructor     *)
(* serves all threads except for a main thread that returns from main(),   *)
(* for which an atexit() handler does. exit() is called by the main thread *)
(* or after it has ended; the library may be used by the program's own     *)
(* exit handlers, except in the second variant, where the key would lead   *)
(* them to freed memory. pthreads and atexit are external.                 *)
(***************************************************************************)
EXTENDS Integers, FiniteSets

CONSTANTS
  Threads,
  MainThread,
  MaxHandlers  \* bound on atexit() registrations

ASSUME CtxAssumption == MainThread \in Threads /\ MaxHandlers \in Nat

VARIABLES
  fallback,     \* which variant was built
  initialized,  \* the threads whose context has initialized set
  allocated,    \* fallback: the threads whose context is allocated
  specific,     \* the threads with a value for dill_key
  dill_main,    \* dill_main # NULL
  handlers,     \* registered calls of dill_ctx_atexit, not yet run
  alive,        \* threads that run
  exiting,      \* exit() was called
  failed        \* a dill_assert failed, or freed memory was used

ctxVars == <<fallback, initialized, allocated, specific, dill_main, handlers,
             alive, exiting, failed>>

CtxInit ==
  /\ fallback \in BOOLEAN
  /\ initialized = {} /\ allocated = {} /\ specific = {}
  /\ dill_main = FALSE /\ handlers = 0
  /\ alive = Threads
  /\ exiting = FALSE /\ failed = FALSE

\* A thread that may call the library: after exit() it is the one running the
\* handlers.
MayCall(t) == ~failed /\ t \in alive /\ (exiting => t = MainThread /\ ~fallback)

\* dill_getctx finds the context of thread t.
Ready(t) == IF fallback THEN t \in specific ELSE t \in initialized

\* dill_ctx_init and dill_getctx_: the context is made on first use.
GetCtx(t) ==
  /\ MayCall(t) /\ ~Ready(t)
  /\ t = MainThread => handlers < MaxHandlers
  /\ failed' = (t \in initialized)        \* the assertion in dill_ctx_init_
  /\ initialized' = initialized \cup {t}
  /\ allocated' = IF fallback THEN allocated \cup {t} ELSE allocated
  /\ specific' = specific \cup {t}
  /\ dill_main' = (dill_main \/ t = MainThread)
  /\ handlers' = IF t = MainThread THEN handlers + 1 ELSE handlers
  /\ UNCHANGED <<fallback, alive, exiting>>

\* dill_ctx_term of the context of thread t, by that thread.
TermForgetsMain(t) ==
  /\ failed' = (t \notin initialized \/ (fallback /\ t \notin allocated))
  /\ initialized' = initialized \ {t}
  /\ allocated' = allocated \ {t}
  /\ UNCHANGED dill_main
Term(t) ==
  /\ failed' = (t \notin initialized \/ (fallback /\ t \notin allocated))
  /\ initialized' = initialized \ {t}
  /\ allocated' = allocated \ {t}
  /\ dill_main' = (dill_main /\ t # MainThread)

\* A thread ends: the destructor runs if the key has a value, which pthreads
\* resets before.
ThreadEnd(t) ==
  /\ MayCall(t) /\ ~exiting
  /\ alive' = alive \ {t}
  /\ IF t \in specific THEN Term(t) ELSE UNCHANGED <<failed, initialized, allocated, dill_main>>
  /\ specific' = specific \ {t}
  /\ UNCHANGED <<fallback, handlers, exiting>>

\* return from main(), or the end of the last thread.
Exit ==
  /\ ~failed /\ ~exiting
  /\ MainThread \in alive \/ alive = {}
  /\ exiting' = TRUE
  /\ UNCHANGED <<fallback, initialized, allocated, specific, dill_main,
                 handlers, alive, failed>>

\* dill_ctx_atexit.
Atexit ==
  /\ ~failed /\ exiting /\ handlers > 0
  /\ handlers' = handlers - 1
  /\ IF dill_main THEN Term(MainThread)
     ELSE UNCHANGED <<failed, initialized, allocated, dill_main>>
  /\ UNCHANGED <<fallback, specific, alive, exiting>>

CtxNext == (\E t \in Threads : GetCtx(t) \/ ThreadEnd(t)) \/ Exit \/ Atexit

CtxSpec == CtxInit /\ [][CtxNext]_ctxVars

-----------------------------------------------------------------------------
\* A context is destroyed once for each time it was made: no thread that has
\* ended leaves its context behind, nothing is destroyed twice (by the
\* destructor and by the exit handler, say), and the handlers leave nothing of
\* the main thread.
ContextsDestroyedOnce ==
  /\ ~failed
  /\ \A t \in Threads \ alive : t \notin initialized \cup allocated
  /\ exiting /\ handlers = 0 => MainThread \notin initialized
=============================================================================
