-------------------------------- MODULE MCDns --------------------------------
(***************************************************************************)
(* TLC instance of the parts the resolver is built from: its sockets, its  *)
(* packets and its orders. Each behaviour exercises one of them.           *)
(***************************************************************************)
EXTENDS DnsSocket, DnsPacket, DnsOrder, TLC

VARIABLE part

SomeOrder == [kind |-> "search", search |-> <<>>, dots |-> 0, ndots |-> 0]
Init ==
  /\ part \in {"socket", "packet", "order"}
  /\ SocketInit /\ PacketInit /\ IF part = "order" THEN OrderInit ELSE order = SomeOrder
  /\ part # "socket" => type = "any"
  /\ part # "packet" => \A size \in Sizes : pk[1].size <= size
Next ==
  /\ UNCHANGED part
  /\ \/ part = "socket" /\ SocketNext /\ UNCHANGED <<pkVars, orderVars>>
     \/ part = "packet" /\ PacketNext /\ UNCHANGED <<soVars, orderVars>>
     \/ part = "order" /\ OrderNext /\ UNCHANGED <<soVars, pkVars>>
Spec == Init /\ [][Next]_<<soVars, pkVars, orderVars, part>>

\* Names that share a suffix, some in capitals, and two that dns_d_comp confuses.
Label1 == <<100>>
Upper1 == <<120>>
Label2 == <<101, 101>>
WordField(n) == <<<<n>>>>
Rec(s, n, t, rd) == [section |-> s, name |-> n, type |-> t, rd |-> rd]
RecordSet ==
  {Rec(1, <<Label1, Label2>>, "A", <<>>),
   Rec(2, <<Label1, Label2>>, "CNAME", <<<<Label2, Label2>>>>),
   Rec(2, <<Label2, Upper1>>, "A", <<WordField(7)>>),
   Rec(2, <<Label1, Label1>>, "TXT", <<<<<<100, 101, 102>>>>>>),
   Rec(3, <<Label2>>, "SOA", <<<<Label1, Label2>>, <<Label2, Label1, Label2>>, WordField(1)>>),
   Rec(3, <<>>, "NS", <<<<Label2, Label1>>>>),
   Rec(4, <<Label2, Upper1>>, "MX", <<WordField(3), <<Label1, Label2>>>>),
   Rec(4, <<Upper1, Label2>>, "SRV", <<WordField(3), <<Label2>>>>),
   Rec(4, <<Label2, Label1>>, "AAAA", <<WordField(1), WordField(0), WordField(0), WordField(2)>>),
   Rec(4, <<Label1>>, "SSHFP", <<WordField(1), WordField(1), WordField(9)>>),
   Rec(4, <<Label1>>, "SSHFP", <<WordField(1), WordField(2), WordField(9)>>)}
PushBounds == <<2, 1>>
SuffixSet == {<<>>, <<"a">>, <<"a", "b">>}
=============================================================================
