-------------------------------- MODULE Stack --------------------------------
(***************************************************************************)
(* The stacks of coroutines and their cache: stack.c. A coroutine that     *)
(* ends frees the stack on which it is still executing (dill_epilogue); a  *)
(* canceled one is freed by whoever closes its bundle. Page sizes and the  *)
(* guard page are left out.                                                *)
(***************************************************************************)
EXTENDS SeqOps

CONSTANTS
  Stacks,     \* blocks of memory
  MainStack,  \* the stack of main(), which is no concern of stack.c
  MaxCached   \* dill_max_cached_stacks

ASSUME StackAssumption ==
  /\ MainStack \notin Stacks
  /\ MaxCached \in Nat \ {0}   \* "Must be at least 1."

VARIABLES
  cache,   \* ctx->cache, the most recently freed stack first
  count,   \* ctx->count
  held,    \* stacks of coroutines
  cpu,     \* the stack the processor is using
  gone     \* dill_ctx_stack_term was called: the thread has ended

stackVars == <<cache, count, held, cpu, gone>>

\* dill_ctx_stack_init.
StackInit ==
  /\ cache = <<>> /\ count = 0
  /\ held = {} /\ cpu = MainStack
  /\ gone = FALSE

\* A freed stack may still be in use by dill_epilogue on its way to dill_wait;
\* all it does there is to switch to another stack.
Executing == ~gone /\ (cpu = MainStack \/ cpu \in held)

\* dill_allocstack of a block s, and the new coroutine runs on it. The block
\* comes from the cache or from the heap; if the heap is exhausted, nothing
\* happens.
AllocStack(s) ==
  /\ Executing
  /\ IF cache # <<>>
     THEN s = Head(cache) /\ cache' = Tail(cache) /\ count' = count - 1
     ELSE s \notin held /\ UNCHANGED <<cache, count>>
  /\ held' = held \cup {s}
  /\ cpu' = s
  /\ UNCHANGED gone

\* What is left of the cache before the stack s is put there: a full cache
\* loses its newest stack to the heap.
Kept(s) == IF count >= MaxCached THEN Tail(cache) ELSE cache

\* dill_freestack.
FreeStackDirect(s) ==
  /\ Executing /\ s \in held
  /\ held' = held \ {s}
  /\ IF count >= MaxCached THEN UNCHANGED <<cache, count>>
     ELSE cache' = <<s>> \o cache /\ count' = count + 1
  /\ UNCHANGED <<cpu, gone>>
FreeStack(s) ==
  /\ Executing /\ s \in held
  /\ held' = held \ {s}
  /\ cache' = <<s>> \o Kept(s)
  /\ count' = (IF count >= MaxCached THEN count - 1 ELSE count) + 1
  /\ UNCHANGED <<cpu, gone>>

\* dill_wait jumps to another coroutine, or back to main.
Switch(s) ==
  /\ ~gone /\ s \in held \cup {MainStack} /\ s # cpu
  /\ cpu' = s
  /\ UNCHANGED <<cache, count, held, gone>>

\* dill_ctx_stack_term, when the thread ends.
StackTerm ==
  /\ Executing
  /\ cache' = <<>>
  /\ gone' = TRUE
  /\ UNCHANGED <<count, held, cpu>>

StackNext ==
  \/ \E s \in Stacks : AllocStack(s) \/ FreeStack(s)
  \/ \E s \in Stacks \cup {MainStack} : Switch(s)
  \/ StackTerm

StackSpec == StackInit /\ [][StackNext]_stackVars

-----------------------------------------------------------------------------
\* The processor never executes on memory that was returned to the heap, not
\* even in the moments in which dill_freestack is running on the very stack it
\* was given ("this very function can be still executing on that stack"). And
\* no stack is given to two coroutines: what is in the cache is there once and
\* belongs to nobody, and the counter agrees with the list, so that a stack is
\* popped only if there is one.
StacksSafe ==
  /\ cpu \in held \cup Range(cache) \cup {MainStack}
  /\ NoDup(cache) /\ Range(cache) \cap held = {}
  /\ ~gone => count = Len(cache)
  /\ count <= MaxCached
=============================================================================
