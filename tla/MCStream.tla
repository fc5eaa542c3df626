------------------------------ MODULE MCStream ------------------------------
(***************************************************************************)
(* TLC instance of the transports: a pair of connected bytestream sockets, *)
(* a UDP socket, and the buffer lists all of them take. Each behaviour     *)
(* exercises one of the three.                                             *)
(***************************************************************************)
EXTENDS Stream, Udp, Iol, TLC

CONSTANTS pa, pb, u1, u2, e1, e2, e3

VARIABLE part

mcVars == <<streamVars, udpVars, iolVars, part>>

Init ==
  /\ part \in {"stream", "udp", "iol"}
  /\ StreamInit /\ UdpInit /\ IolInit
  /\ part # "stream" => kind = "tcp"
  /\ part # "udp" => ~hasremote
  /\ part # "iol" => input = <<>>

Next ==
  /\ UNCHANGED part
  /\ \/ part = "stream" /\ StreamNext /\ UNCHANGED <<udpVars, iolVars>>
     \/ part = "udp" /\ UdpNext /\ UNCHANGED <<streamVars, iolVars>>
     \/ part = "iol" /\ IolNext /\ UNCHANGED <<streamVars, udpVars>>

Spec == Init /\ [][Next]_mcVars /\ StreamFairness

Bytes == (pa :> 3) @@ (pb :> 0)
ListsToSend == (pa :> {[left |-> 1, trail |-> FALSE], [left |-> 2, trail |-> TRUE]}) @@ (pb :> {})
ListsToReceive == (pa :> {<<"buf">>})
  @@ (pb :> {<<"buf">>, <<"null", "buf">>, <<"null", "null", "null">>})
=============================================================================
