---------------------------------- MODULE Poll ----------------------------------
(***************************************************************************)
(* The poll back end: poll.c.inc. The descriptors somebody waits for are   *)
(* kept in a compact array, the argument of poll(). A clause that is       *)
(* canceled leaves its descriptor in the array, with no events, until the  *)
(* next poll sweeps it out.                                                *)
(***************************************************************************)
EXTENDS Pollset

VARIABLES
  pollset,  \* ctx->pollset: descriptor and events of each slot, used or not
  size,     \* ctx->pollset_size
  idx       \* dill_fdinfo::idx

pollVars == <<pollset, size, idx>>
pollAll == <<vars, fdVars, pollVars>>

LastSlot == Cardinality(Fds) - 1
Slots == [fd : Fds, events : SUBSET Dirs]

\* dill_ctx_pollset_init: the array comes from malloc and is not initialised.
PollInit ==
  /\ FdInit /\ backend = "poll"
  /\ pollset \in [0..LastSlot -> Slots]
  /\ size = 0
  /\ idx = [fd \in Fds |-> -1]

\* dill_pollset_in, dill_pollset_out.
PollWait(c, d, fd, delay) ==
  LET i == IF idx[fd] < 0 THEN size ELSE idx[fd]
  IN /\ FdWait(c, d, fd, delay)
     /\ pollset' = [pollset EXCEPT ![i] = [fd |-> fd, events |-> @.events \cup {d}]]
     /\ idx' = [idx EXCEPT ![fd] = i]
     /\ size' = IF idx[fd] < 0 THEN size + 1 ELSE size

\* dill_fdcancelin, dill_fdcancelout for the clauses canceled in this step,
\* where array p and indices x are what the step has made of them so far.
Canceled(p, x) ==
  [i \in 0..LastSlot |->
     [p[i] EXCEPT !.events = {d \in @ : \A fd \in Fds :
        x[fd] = i => ~(d \in Waits(fd) /\ wq'[<<d, fd>>] = <<>>)}]]

\* The array as it is, for the operations that go through it slot by slot; at, q
\* and bad are for Sweep.
Array == [set |-> pollset, size |-> size, idx |-> idx, at |-> 0, q |-> <<>>, bad |-> FALSE]

\* Descriptor fd leaves the array: the last slot in use takes its place. (The
\* slot that becomes free keeps its contents.)
RemovedKeepsIdx(s, fd) ==
  [s EXCEPT !.size = @ - 1, !.set[s.idx[fd]] = s.set[s.size - 1], !.idx[fd] = -1]
Removed(s, fd) ==
  LET i == s.idx[fd]
      lastpfd == s.set[s.size - 1]
      idxs == IF i # s.size - 1 THEN [s.idx EXCEPT ![lastpfd.fd] = i] ELSE s.idx
  IN [s EXCEPT !.size = @ - 1,
               !.set[i] = lastpfd,
               !.idx = [idxs EXCEPT ![fd] = -1]]

\* dill_pollset_clean.
PollClean(c, fd) ==
  LET t == IF idx[fd] >= 0 THEN Removed(Array, fd) ELSE Array
  IN /\ Fdclean(c, fd)
     /\ pollset' = t.set /\ size' = t.size /\ idx' = t.idx

-----------------------------------------------------------------------------
(***************************************************************************)
(* dill_pollset_poll.                                                      *)
(***************************************************************************)

\* poll() reports the events asked for of the descriptors in the array, and
\* always errors.
Revents(rep) ==
  [fd \in Fds |-> IF idx[fd] >= 0
                  THEN rep[fd] \cap (pollset[idx[fd]].events \cup {"err"}) ELSE {}]

\* The coroutines to resume for the report rep of descriptor fd.
Fire(fd, rep) ==
  (IF rep \cap {"in", "err"} # {} THEN wq[<<"in", fd>>] ELSE <<>>)
    \o (IF rep \cap {"out", "err"} # {} THEN wq[<<"out", fd>>] ELSE <<>>)

\* One round of the loop over the array, at slot s.at: s.q are the coroutines
\* triggered so far, s.bad tells that the assertion in it failed. The slot of a
\* descriptor that is removed is looked at again.
Visit(s, revents) ==
  LET fd == s.set[s.at].fd
      fired == {d \in Waits(fd) : revents[fd] \cap {d, "err"} # {}}
      left == s.set[s.at].events \ fired
      t == [s EXCEPT !.set[s.at].events = left, !.q = @ \o Fire(fd, revents[fd])]
  IN IF left = {} THEN [Removed(t, fd) EXCEPT !.bad = @ \/ Waits(fd) # fired]
     ELSE [t EXCEPT !.at = @ + 1]

\* The loop: a round either goes on to the next slot or removes the last one, so
\* there are as many rounds as there were slots.
Sweep(revents) ==
  LET after[n \in 0..size] == IF n = 0 THEN Array ELSE Visit(after[n - 1], revents)
  IN after[size]

PollPoll ==
  /\ Alive /\ r = NoCr /\ MustPoll
  /\ \E revents \in {Revents(rep) : rep \in Reports} :
       LET s == Sweep(revents)
       IN IF s.bad
          THEN abort' = "pollset"
               /\ UNCHANGED <<r, ret, ready, res, timers, tm, wq, nb1, now,
                              lastPoll, pollVars>>
          ELSE /\ PollRound(\E fd \in Fds : revents[fd] # {}, s.q)
               /\ size' = s.size
               /\ idx' = s.idx
               /\ pollset' = Canceled(s.set, s.idx)
  /\ UNCHANGED <<crVars, fdVars>>

-----------------------------------------------------------------------------
PollStep(c) ==
  \/ \E fd \in Fds : OpenFd(c, fd) /\ UNCHANGED pollVars
  \/ \E d \in Dirs, fd \in Fds, delay \in FdDelays : PollWait(c, d, fd, delay)
  \/ FdReturn(c) /\ UNCHANGED pollVars
  \/ \E fd \in Fds : PollClean(c, fd)
  \/ \E fd \in Fds : CloseFd(c, fd) /\ UNCHANGED pollVars

PollNext ==
  \/ PollPoll
  \/ Elsewhere /\ pollset' = Canceled(pollset, idx) /\ UNCHANGED <<fdVars, size, idx>>
  \/ \E c \in Crs : PollStep(c)

PollSpec == PollInit /\ [][PollNext]_pollAll

-----------------------------------------------------------------------------
\* The array and the indices into it match at all times, whatever is swept,
\* swapped and canceled: the slots in use hold different descriptors, each
\* leading back to its slot, and a descriptor somebody waits for is in the
\* array with the events that are waited for, so poll() will look for them.
ArraySound ==
  Alive =>
  /\ \A i \in 0..(size - 1) : idx[pollset[i].fd] = i
  /\ \A fd \in Fds : idx[fd] # -1 =>
        idx[fd] \in 0..(size - 1) /\ pollset[idx[fd]].fd = fd /\ fd \in cached
  /\ \A fd \in Fds : Waits(fd) # {} =>
        idx[fd] # -1 /\ Waits(fd) \subseteq pollset[idx[fd]].events

\* Waiting by poll is sound: the array matches the clauses however it is swept and
\* swapped, and every coroutine blocked on a descriptor has the one clause that
\* will wake it up.
PollSound == backend = "poll" => ArraySound /\ FdinfoSound /\ FdNotForgotten
=============================================================================
