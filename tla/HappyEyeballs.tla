---------------------------- MODULE HappyEyeballs ----------------------------
(***************************************************************************)
(* dill_happyeyeballs_connect (happyeyeballs.c): two DNS queries, a        *)
(* coordinator that launches an attempt to connect every 300 ms, the       *)
(* attempts, and the caller, who takes the first connection and cancels    *)
(* the rest. All of them are coroutines that meet in unbuffered channels;  *)
(* the two timers (50 ms, 300 ms) may fire at any moment.                  *)
(***************************************************************************)
EXTENDS Integers, Sequences, FiniteSets

CONSTANT MaxAddrs   \* addresses a query returns, at most (10)

ASSUME HappyAssumption == MaxAddrs \in Nat \ {0}

Families == {"ipv4", "ipv6"}
Addrs == Families \X (1..MaxAddrs)

VARIABLES
  reachable,  \* the addresses that can be connected to
  caller,     \* dill_happyeyeballs_connect: "waiting", "closing", "returned"
  result,     \* the address of the connection it returns; {} if it fails
  coord,      \* the coordinator: "first", "choosing", "sleeping", "closing", "done"
  order,      \* cls: the family that is preferred, and the other one
  query,      \* per family: "asking", "offering", "done"; count and the next address
  attempt,    \* per address: "none", "connecting", "offering", "given", "ended"
  last        \* history: family of the latest attempt

heVars == <<reachable, caller, result, coord, order, query, attempt, last>>

HappyInit ==
  /\ reachable \in SUBSET Addrs
  /\ caller = "waiting" /\ result = {}
  /\ coord = "first" /\ order = <<"ipv6", "ipv4">>
  /\ query = [f \in Families |-> [at |-> "asking", count |-> 0, next |-> 1]]
  /\ attempt = [a \in Addrs |-> "none"] /\ last = "none"

Offers(f) == query[f].at = "offering" /\ query[f].next <= query[f].count
Other(f) == CHOOSE g \in Families : g # f

-----------------------------------------------------------------------------
\* dill_happyeyeballs_dnsquery: dill_ipaddr_remotes returns, with or without
\* addresses. They are offered one by one, and behind them 0.0.0.0.
QueryAnswered(f) ==
  /\ query[f].at = "asking" /\ coord # "closing"
  /\ \E n \in 0..MaxAddrs : query' = [query EXCEPT ![f] = [at |-> "offering", count |-> n, next |-> 1]]
  /\ UNCHANGED <<reachable, caller, result, coord, order, attempt, last>>

\* dill_happyeyeballs_attempt.
Connected(a) ==
  /\ attempt[a] = "connecting" /\ a \in reachable
  /\ attempt' = [attempt EXCEPT ![a] = "offering"]
  /\ UNCHANGED <<reachable, caller, result, coord, order, query, last>>
ConnectFailed(a) ==
  /\ attempt[a] = "connecting" /\ a \notin reachable
  /\ attempt' = [attempt EXCEPT ![a] = "ended"]
  /\ UNCHANGED <<reachable, caller, result, coord, order, query, last>>

-----------------------------------------------------------------------------
\* dill_happyeyeballs_coordinator.

\* Which family comes first the next time, after an address of family f.
AlternatedAlways(f) == <<order[2], order[1]>>
Alternated(f) == IF f = order[1] THEN <<order[2], order[1]>> ELSE order

\* Label use_address: 0.0.0.0 is ignored, any other address is tried.
UseAddress(f) ==
  IF query[f].next > query[f].count
  THEN /\ query' = [query EXCEPT ![f].at = "done"] /\ coord' = "choosing"
       /\ UNCHANGED <<order, attempt, last>>
  ELSE /\ query' = [query EXCEPT ![f].next = @ + 1]
       /\ attempt' = [attempt EXCEPT ![<<f, query[f].next>>] = "connecting"]
       /\ order' = Alternated(f) /\ last' = f /\ coord' = "sleeping"

\* The first chrecv waits for IPv6 only; dill_choose takes the first clause that
\* can be performed.
First ==
  /\ coord = "first" /\ query["ipv6"].at = "offering" /\ UseAddress("ipv6")
  /\ UNCHANGED <<reachable, caller, result>>
FirstTimesOut ==
  /\ coord = "first" /\ coord' = "choosing"
  /\ UNCHANGED <<reachable, caller, result, order, query, attempt, last>>
ChoosePreferredOnly ==
  /\ coord = "choosing" /\ query[order[1]].at = "offering" /\ UseAddress(order[1])
  /\ UNCHANGED <<reachable, caller, result>>
Choose ==
  /\ coord = "choosing"
  /\ \E i \in 1..2 :
       /\ query[order[i]].at = "offering" /\ (i = 2 => query[order[1]].at # "offering")
       /\ UseAddress(order[i])
  /\ UNCHANGED <<reachable, caller, result>>
Slept ==
  /\ coord = "sleeping" /\ coord' = "choosing"
  /\ UNCHANGED <<reachable, caller, result, order, query, attempt, last>>

\* Label cancel: the bundle is closed. Whoever is in it fails with ECANCELED, and
\* an attempt that has connected closes its connection.
CanceledLeavesConnection(a) ==
  /\ coord = "closing" /\ attempt[a] \in {"connecting", "offering"}
  /\ attempt' = [attempt EXCEPT ![a] = IF @ = "offering" THEN "given" ELSE "ended"]
  /\ UNCHANGED <<reachable, caller, result, coord, order, query, last>>
Canceled(a) ==
  /\ coord = "closing" /\ attempt[a] \in {"connecting", "offering"}
  /\ attempt' = [attempt EXCEPT ![a] = "ended"]
  /\ UNCHANGED <<reachable, caller, result, coord, order, query, last>>
CoordinatorEnds ==
  /\ coord = "closing" /\ \A a \in Addrs : attempt[a] \notin {"connecting", "offering"}
  /\ coord' = "done"
  /\ query' = [f \in Families |-> [query[f] EXCEPT !.at = "done"]]
  /\ UNCHANGED <<reachable, caller, result, order, attempt, last>>

-----------------------------------------------------------------------------
\* dill_happyeyeballs_connect. The first connection is taken, or the deadline
\* passes or the caller is canceled; either way the coordinator is closed.
TakeConnection(a) ==
  /\ caller = "waiting" /\ attempt[a] = "offering"
  /\ attempt' = [attempt EXCEPT ![a] = "given"] /\ result' = {a} /\ caller' = "closing"
  /\ UNCHANGED <<reachable, coord, order, query, last>>
GiveUp ==
  /\ caller = "waiting" /\ caller' = "closing"
  /\ UNCHANGED <<reachable, result, coord, order, query, attempt, last>>
CloseCoordinator ==
  /\ caller = "closing" /\ coord \notin {"closing", "done"} /\ coord' = "closing"
  /\ UNCHANGED <<reachable, caller, result, order, query, attempt, last>>
Return ==
  /\ caller = "closing" /\ coord = "done" /\ caller' = "returned"
  /\ UNCHANGED <<reachable, result, coord, order, query, attempt, last>>

Closing1 == CloseCoordinator \/ CoordinatorEnds \/ Return
HappyNext ==
  \/ \E f \in Families : QueryAnswered(f)
  \/ \E a \in Addrs : Connected(a) \/ ConnectFailed(a) \/ Canceled(a) \/ TakeConnection(a)
  \/ First \/ FirstTimesOut \/ Choose \/ Slept \/ GiveUp \/ Closing1

HappySpec == HappyInit /\ [][HappyNext]_heVars

\* Coroutines that can run do run, timers fire, and an attempt to connect to an
\* address that answers succeeds. That a query is answered, or a deadline set, is
\* not assumed.
HappyFairness ==
  /\ WF_heVars(First \/ FirstTimesOut) /\ WF_heVars(Choose) /\ WF_heVars(Slept) /\ WF_heVars(Closing1)
  /\ \A a \in Addrs : WF_heVars(Connected(a)) /\ WF_heVars(Canceled(a)) /\ WF_heVars(TakeConnection(a))

-----------------------------------------------------------------------------
\* When the call returns, no connection is open but the one it returns, however
\* far the other attempts had come when they were canceled
\* (dill_happyeyeballs_connect closes the bundle before it returns).
OneConnection ==
  caller = "returned" => {a \in Addrs : attempt[a] \in {"connecting", "offering", "given"}} = result

\* An attempt goes to the same family as the one before only while the other
\* family has no address (man/happyeyeballs_connect.3: "alternating between IPv4
\* and IPv6 addresses").
Alternates ==
  [][\A f \in Families : query'[f].next # query[f].next /\ last = f => ~Offers(Other(f))]_heVars

ReachableFound == \E a \in reachable : query[a[1]].at # "asking" /\ a[2] <= query[a[1]].count

\* "A way to create a TCP connection to a remote endpoint even if some of the IP
\* addresses associated with the endpoint are not accessible"
\* (man/happyeyeballs_connect.3): once a query has found an address that answers,
\* the call returns, even if the other query never ends and other attempts hang.
HappyConnects == ReachableFound ~> caller = "returned"
=============================================================================
