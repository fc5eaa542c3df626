--------------------------------- MODULE Epoll ---------------------------------
(***************************************************************************)
(* The epoll back end: epoll.c.inc. The kernel keeps a set of descriptors  *)
(* and the events it looks for; libdill keeps a copy of it and a list of   *)
(* the descriptors whose entry in the kernel is out of date. The list is   *)
(* worked off before each epoll_wait. Its order has no effect and is left  *)
(* out.                                                                    *)
(***************************************************************************)
EXTENDS Pollset, SequencesExt

VARIABLES
  currevs,     \* dill_fdinfo::currevs
  changelist,  \* ctx->changelist
  kset         \* the kernel's set: the events of each descriptor, {}: absent

epollVars == <<currevs, changelist, kset>>
epollAll == <<vars, fdVars, epollVars>>

EpollInit ==
  /\ FdInit /\ backend = "epoll"
  /\ currevs = [fd \in Fds |-> {}]
  /\ changelist = {}
  /\ kset = [fd \in Fds |-> {}]

\* dill_fdcancelin, dill_fdcancelout: the descriptor joins the changelist.
ChangedNotCanceled == changelist
Changed == changelist \cup Dropped

\* dill_pollset_in, dill_pollset_out. A descriptor that is not cached is given
\* to the kernel at once.
EpollWait(c, d, fd, delay) ==
  /\ FdWait(c, d, fd, delay)
  /\ IF fd \in cached THEN UNCHANGED <<currevs, kset>>
     ELSE /\ kset[fd] = {}     \* else EEXIST, and the call fails
          /\ currevs' = [currevs EXCEPT ![fd] = {d}]
          /\ kset' = [kset EXCEPT ![fd] = {d}]
  /\ changelist' = changelist \cup {fd}

\* dill_pollset_clean.
UncleanedList(fd) == changelist
CleanedList(fd) == changelist \ {fd}
EpollClean(c, fd) ==
  /\ Fdclean(c, fd)
  /\ currevs' = [currevs EXCEPT ![fd] = {}]
  /\ kset' = IF currevs[fd] # {} THEN [kset EXCEPT ![fd] = {}] ELSE kset
  /\ changelist' = CleanedList(fd)

\* The kernel forgets a descriptor that is closed.
EpollClose(c, fd) ==
  /\ CloseFd(c, fd)
  /\ kset' = [kset EXCEPT ![fd] = {}]
  /\ UNCHANGED <<currevs, changelist>>

-----------------------------------------------------------------------------
(***************************************************************************)
(* dill_pollset_poll.                                                      *)
(***************************************************************************)

\* The epoll_ctl for fd fails: ADD of a descriptor that is in the set, MOD or
\* DEL of one that is not, or the descriptor is not open.
CtlFails(fd) ==
  /\ fd \in changelist /\ currevs[fd] # Waits(fd)
  /\ fd \notin opened \/ (currevs[fd] = {}) # (kset[fd] = {})

\* The kernel's set when the changelist was applied.
AppliedInOnly == [fd \in Fds |-> IF fd \in changelist
                                 THEN Waits(fd) \cap {"in"} ELSE kset[fd]]
Applied == [fd \in Fds |-> IF fd \in changelist THEN Waits(fd) ELSE kset[fd]]

\* epoll_wait reports the events asked for, and always errors.
Reported(rep) ==
  [fd \in Fds |-> IF Applied[fd] = {} THEN {} ELSE rep[fd] \cap (Applied[fd] \cup {"err"})]

\* The clauses to trigger for the events evs.
Fired(evs) == {e \in Endpoints : wq[e] # <<>> /\ evs[e[2]] \cap {e[1], "err"} # {}}

\* They are triggered descriptor by descriptor, in the order of the report, "in"
\* before "out".
ByDescriptor(order) ==
  \A i \in DOMAIN order, fd \in Fds :
     order[i] = <<"out", fd>> /\ <<"in", fd>> \in Range(order)
       => i > 1 /\ order[i - 1] = <<"in", fd>>

EpollPoll ==
  /\ Alive /\ r = NoCr /\ MustPoll
  /\ \E evs \in {Reported(rep) : rep \in Reports} :
       \E order \in SetToSeqs(Fired(evs)) :
            IF \E fd \in Fds : CtlFails(fd)
            THEN abort' = "pollset"
                 /\ UNCHANGED <<r, ret, ready, res, timers, tm, wq, nb1, now,
                                lastPoll, epollVars>>
            ELSE /\ ByDescriptor(order)
                 /\ PollRound(\E fd \in Fds : evs[fd] # {},
                              [i \in DOMAIN order |-> Head(wq[order[i]])])
                 /\ kset' = Applied
                 /\ currevs' = [fd \in Fds |-> IF fd \in changelist THEN Waits(fd)
                                               ELSE currevs[fd]]
                 /\ changelist' = Dropped
  /\ UNCHANGED <<crVars, fdVars>>

-----------------------------------------------------------------------------
EpollStep(c) ==
  \/ \E fd \in Fds : OpenFd(c, fd) /\ UNCHANGED epollVars
  \/ \E d \in Dirs, fd \in Fds, delay \in FdDelays : EpollWait(c, d, fd, delay)
  \/ FdReturn(c) /\ UNCHANGED epollVars
  \/ \E fd \in Fds : EpollClean(c, fd)
  \/ \E fd \in Fds : EpollClose(c, fd)

EpollNext ==
  \/ EpollPoll
  \/ Elsewhere /\ changelist' = Changed /\ UNCHANGED <<fdVars, currevs, kset>>
  \/ \E c \in Crs : EpollStep(c)

EpollSpec == EpollInit /\ [][EpollNext]_epollAll

-----------------------------------------------------------------------------
\* No wake-up is lost in the copy: the kernel will look for exactly the events
\* that coroutines wait for, unless the descriptor is on the changelist and is
\* about to be corrected before the next epoll_wait.
KernelInSync ==
  Alive => \A fd \in Fds : fd \notin changelist => kset[fd] = Waits(fd)

\* The copy is exact, so the epoll_ctl calls of dill_pollset_poll, chosen after
\* the copy, never fail; and a descriptor that is not cached has left no trace,
\* so its number can be used for another file.
CopyExact ==
  Alive => \A fd \in Fds :
     /\ currevs[fd] = kset[fd]
     /\ fd \notin cached => kset[fd] = {} /\ fd \notin changelist

\* Waiting by epoll is sound: nobody waits for a descriptor in vain, or twice, the
\* kernel knows what is waited for, and the poll reports only what it has triggered.
EpollSound ==
  backend = "epoll" =>
    FdinfoSound /\ FdNotForgotten /\ KernelInSync /\ CopyExact /\ PollNeverLies
=============================================================================
