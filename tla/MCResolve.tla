------------------------------ MODULE MCResolve ------------------------------
(***************************************************************************)
(* TLC instance of the lookup of names and of happy eyeballs on top of it. *)
(* Each behaviour exercises one of them.                                   *)
(***************************************************************************)
EXTENDS HappyEyeballs, Resolver, TLC

VARIABLE part

Init ==
  /\ part \in {"happy", "resolver"} /\ HappyInit /\ ResolverInit
  /\ part # "happy" => reachable = {}
  \* A deadline cuts every lookup short in the same place: the recursive ones have none.
  /\ recurse => ~deadline
  /\ part # "resolver" => ~recurse /\ servers = 0 /\ ~deadline /\ todo = <<"A">>
Next ==
  /\ UNCHANGED part
  /\ \/ part = "happy" /\ HappyNext /\ UNCHANGED resVars
     \/ part = "resolver" /\ ResolverNext /\ UNCHANGED heVars

\* What a behaviour does not exercise owes it nothing.
Spec ==
  /\ Init /\ [][Next]_<<heVars, resVars, part>>
  /\ part = "happy" => HappyFairness
  /\ part = "resolver" => ResolverFairness

CandidateSeq == <<"host", "host.local">>
LookupSeq == <<"b", "f">>
HostRecs == {[name |-> "host.local", type |-> "A", data |-> 1]}
=============================================================================
