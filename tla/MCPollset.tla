------------------------------ MODULE MCPollset ------------------------------
(***************************************************************************)
(* TLC instance of the two pollsets. A library is built with one of them,  *)
(* so each behaviour uses one.                                             *)
(***************************************************************************)
EXTENDS Epoll, Poll

CONSTANTS m, c1, c2, b1, f1, f2

TwoChildren == {m, c1, c2}
OneBundle == {b1}
FdEndpoints == {"in", "out"} \X {f1, f2}
NeverOrOne == {-1, 1}
Sym == Permutations({c1, c2}) \cup Permutations({f1, f2})

\* The variables of the pollset that is not built in have no value to speak of.
PollsetInit ==
  \/ EpollInit /\ pollset = <<>> /\ size = 0 /\ idx = <<>>
  \/ PollInit /\ currevs = <<>> /\ changelist = {} /\ kset = <<>>
PollsetNext ==
  \/ backend = "epoll" /\ EpollNext /\ UNCHANGED pollVars
  \/ backend = "poll" /\ PollNext /\ UNCHANGED epollVars
PollsetSpec == PollsetInit /\ [][PollsetNext]_<<epollAll, pollVars>>
=============================================================================
