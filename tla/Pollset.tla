-------------------------------- MODULE Pollset --------------------------------
(***************************************************************************)
(* Waiting for file descriptors: fdin() and fdout() of libdill.c and the   *)
(* poll inside dill_wait, on top of the coroutines of module Cr. What the  *)
(* poll consists of depends on the platform: the modules Epoll and Poll    *)
(* add the two back ends epoll.c.inc and poll.c.inc.                       *)
(*                                                                         *)
(* A descriptor has two lists, "in" and "out", each with room for one      *)
(* coroutine. The program calls fdclean() before it closes a descriptor,   *)
(* as dill_fd_close does.                                                  *)
(***************************************************************************)
EXTENDS Cr

CONSTANTS
  Fds,       \* file descriptors, by number
  FdDelays   \* deadlines given to fdin() and fdout() (-1: never)

Dirs == {"in", "out"}

ASSUME PollsetAssumption ==
  /\ Endpoints = Dirs \X Fds /\ IsFiniteSet(Fds)
  /\ FdDelays \subseteq Int

VARIABLES
  backend, \* "epoll" or "poll": the file that pollset.c includes
  opened,  \* descriptors that are open in the operating system
  cached   \* dill_fdinfo::cached

fdVars == <<backend, opened, cached>>

FdInit == Init /\ opened = {} /\ cached = {}

\* dill_fdinfo::in and dill_fdinfo::out: the directions somebody waits for.
Waits(fd) == {d \in Dirs : wq[<<d, fd>>] # <<>>}

\* The descriptors one of whose clauses was canceled or fired in this step.
Dropped == {fd \in Fds : \E d \in Dirs :
              wq[<<d, fd>>] # <<>> /\ wq'[<<d, fd>>] = <<>>}

-----------------------------------------------------------------------------
(***************************************************************************)
(* The program and the operating system.                                   *)
(***************************************************************************)

\* The program opens a descriptor: open(), socket(), accept()...
OpenFd(c, fd) ==
  /\ User(c) /\ fd \notin opened
  /\ opened' = opened \cup {fd}
  /\ UNCHANGED <<vars, backend, cached>>

\* close() of a descriptor that was cleaned, as at the end of dill_fd_close; a
\* program that calls the two itself may do other things in between.
CloseFd(c, fd) ==
  /\ User(c) /\ fd \in opened \ cached
  /\ opened' = opened \ {fd}
  /\ UNCHANGED <<vars, backend, cached>>

\* The test for EBUSY.
BusyNever(d, fd) == FALSE
Busy(d, fd) == d \in Waits(fd)

\* dill_fdin and dill_fdout of an open descriptor, if they do not fail.
FdWait(c, d, fd, delay) ==
  /\ User(c) /\ CanBlock(c)
  /\ fd \in opened /\ ~Busy(d, fd)
  /\ Deadline(delay) <= LastDeadline
  /\ cached' = cached \cup {fd}
  /\ wq' = [wq EXCEPT ![<<d, fd>>] = <<c>>]
  /\ SetTimer(c, 2, Deadline(delay))
  /\ call' = [call EXCEPT ![c] = InExt]
  /\ Suspend
  /\ UNCHANGED <<ready, res, nb1, now, lastPoll, abort,
                 live, done, closer, owner, crs, waiter, backend, opened>>

\* They return after their dill_wait.
FdReturn(c) ==
  /\ Running(c) /\ call[c] = InExt
  /\ call' = [call EXCEPT ![c] = Idle]
  /\ UNCHANGED <<schedVars, live, done, closer, owner, crs, waiter, fdVars>>

\* dill_fdclean, up to what the back end does. It fails with EBUSY if somebody
\* waits.
Fdclean(c, fd) ==
  /\ User(c)
  /\ fd \in cached /\ Waits(fd) = {}
  /\ cached' = cached \ {fd}
  /\ UNCHANGED <<vars, backend, opened>>

-----------------------------------------------------------------------------
(***************************************************************************)
(* The poll in dill_wait.                                                  *)
(***************************************************************************)

\* What the operating system may report: for each descriptor the directions it
\* is ready in, and "err" for an error or hang-up.
Reports == [Fds -> SUBSET (Dirs \cup {"err"})]

\* dill_wait once dill_pollset_poll has returned fired, having triggered the
\* coroutines of q: expired timers are fired too. The loop repeats, that is
\* the poll goes on, if nothing was fired at all. Then the first coroutine of
\* the ready queue runs; a poll that reports more than it has triggered leaves
\* that queue empty.
PollRound(fired, q) ==
  LET late == Without(Due, Range(q))
      woken == q \o late
  IN /\ ready # <<>> \/ fired \/ late # <<>>
     /\ IF Range(woken) \cap Range(ready) # {} \/ ready \o woken = <<>>
        THEN /\ abort' = IF ready \o woken = <<>> THEN "pollset" ELSE "docancel"
             /\ UNCHANGED <<r, ret, ready, res, timers, tm, wq, nb1, now, lastPoll>>
        ELSE /\ CancelClauses(Range(woken))
             /\ Jump(ready \o woken,
                     [c \in Crs |-> IF c \in Range(q) THEN Result(1, "0")
                                    ELSE IF c \in Range(late)
                                    THEN Result(tm[c].id, "ETIMEDOUT")
                                    ELSE res[c]])
             /\ lastPoll' = now
             /\ UNCHANGED <<nb1, now, abort>>

\* The other steps of the kernel, and those of coroutines and bundles.
Elsewhere ==
  \/ (RunReady \/ Tick \/ Crashed) /\ UNCHANGED crVars
  \/ \E c \in Crs : UserStep(c)

-----------------------------------------------------------------------------
\* Nobody waits twice, and who waits for a descriptor waits for nothing else:
\* the fdinfo records lead to coroutines that are blocked in fdin() or fdout()
\* of a descriptor that is cached and open.
FdinfoSound ==
  Alive => \A fd \in Fds : \A d \in Waits(fd) :
     LET c == Head(wq[<<d, fd>>]) IN
     /\ wq[<<d, fd>>] = <<c>> /\ Suspended(c) /\ call[c] = InExt
     /\ c \in live \ done
     /\ fd \in cached /\ fd \in opened
     /\ \A e \in Endpoints \ {<<d, fd>>} : c \notin Range(wq[e])

\* A coroutine blocked in fdin() or fdout() has a clause left to wake it up.
FdNotForgotten ==
  Alive => \A c \in Crs :
     call[c] = InExt /\ Suspended(c) => \E e \in Endpoints : c \in Range(wq[e])

\* pollset.h: "Return 0 if the timeout expired or 1 if at least one clause was
\* triggered." Were the poll to claim an event without having triggered
\* anything, dill_wait would pop an empty queue.
PollNeverLies == abort # "pollset"
=============================================================================
