----------------------------- MODULE MCSessions -----------------------------
(***************************************************************************)
(* TLC instance of the message and session protocols, and of how their     *)
(* sockets are stacked. Each behaviour exercises one of them.              *)
(***************************************************************************)
EXTENDS Framing, Closing, Ws, Http, Socks5, Layers, TLC

VARIABLE part

mcVars == <<framingVars, closingVars, wsVars, httpVars, socksVars, layerVars, part>>

Init ==
  /\ part \in {"framing", "closing", "ws", "http", "socks", "layers"}
  /\ FramingInit /\ (part # "framing" => framing = "suffix")
  /\ ClosingInit /\ (part # "closing" => protocol = "term")
  /\ WsInit /\ (part # "ws" => server)
  /\ HttpInit /\ (part # "http" => line = <<>>)
  /\ SocksInit /\ (part # "socks" => cred = None /\ target = Bound /\ checks)
  /\ LayersInit

Next ==
  /\ UNCHANGED part
  /\ \/ part = "framing" /\ FramingNext /\ UNCHANGED <<closingVars, wsVars, httpVars, socksVars, layerVars>>
     \/ part = "closing" /\ ClosingNext /\ UNCHANGED <<framingVars, wsVars, httpVars, socksVars, layerVars>>
     \/ part = "ws" /\ WsNext /\ UNCHANGED <<framingVars, closingVars, httpVars, socksVars, layerVars>>
     \/ part = "http" /\ HttpNext /\ UNCHANGED <<framingVars, closingVars, wsVars, socksVars, layerVars>>
     \/ part = "socks" /\ SocksNext /\ UNCHANGED <<framingVars, closingVars, wsVars, httpVars, layerVars>>
     \/ part = "layers" /\ LayersNext /\ UNCHANGED <<framingVars, closingVars, wsVars, httpVars, socksVars>>

\* A protocol that a behaviour does not exercise owes it nothing.
Spec ==
  /\ Init /\ [][Next]_mcVars
  /\ part = "closing" => ClosingFairness
  /\ part = "socks" => SocksFairness

SuffixDef == <<1, 2>>
TextSet == {<<>>, <<1>>, <<0, 1, 1>>, <<2, 1, 2>>, <<0, 0, 0, 0, 1, 1, 1, 1, 1>>}
BufferSet == {<<3>>, <<1, 2>>, <<0, 3>>, <<2>>, <<1, 2, 1>>}

WsTextSet == {<<1, 2>>, <<4, 5, 6, 7, 8>>}
WsListSet == {<<5>>, <<1, 3>>}
ReasonSet == {<<>>, <<9>>, <<9, 9>>}

ProtocolDef == <<"1">>
StringSet ==
  {<<>>, <<" ">>, <<"H">>, <<":", "1">>, <<"1", "H", "1">>, <<" ", "H", " ">>, <<"H", " ", "1">>}
StatusSet == {<<"1">>}
LineSet == UNION {[1..n -> {" ", ":", "H", "1"}] : n \in 1..5}

Cred(u, p) == [user |-> u, pass |-> p]
CredentialSet == {Cred(<<7>>, <<>>), Cred(<<7>>, <<1, 0>>), Cred(<<>>, <<7, 7>>)}
ValidSet == {Cred(<<7>>, <<1, 0>>), Cred(<<>>, <<7, 7>>)}
BoundDef == [atyp |-> 1, addr |-> <<0, 0, 0, 0>>, port |-> 0]
TargetSet ==
  {BoundDef, [atyp |-> 1, addr |-> <<10, 0, 0, 1>>, port |-> 80],
   [atyp |-> 4, addr |-> [i \in 1..16 |-> i], port |-> 65535],
   [atyp |-> 3, addr |-> <<3>>, port |-> 256], [atyp |-> 3, addr |-> <<4, 5, 0>>, port |-> 1],
   [atyp |-> 3, addr |-> <<>>, port |-> 2]}
=============================================================================
