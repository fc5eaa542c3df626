-------------------------------- MODULE Socks5 --------------------------------
(***************************************************************************)
(* SOCKS5 (socks5.c): a client that asks a proxy to connect it, both of    *)
(* them libdill, over a bytestream that delivers in order. Packets are     *)
(* sequences of bytes. Every wait may end with an error (a deadline), and  *)
(* the program then closes the socket.                                     *)
(***************************************************************************)
EXTENDS Integers, Sequences, SequencesExt

CONSTANTS
  Credentials,  \* [user, pass] a client may have; sequences of bytes
  Valid,        \* those the proxy's auth_fn accepts
  Targets,      \* [atyp, addr, port] clients ask for; atyp 1 IPv4, 4 IPv6, 3 name
  Bound,        \* the address the proxy reports back
  Replies       \* replies the proxy program may choose (0 is success)

Byte == 0..(2^8 - 1)

ASSUME Socks5Assumption ==
  /\ Credentials \subseteq [user : Seq(Byte), pass : Seq(Byte)]
  /\ \A k \in Credentials : Len(k.user) \in Byte /\ Len(k.pass) \in Byte   \* else EINVAL
  /\ Valid \subseteq Credentials
  /\ 0 \in Replies /\ Replies \subseteq Byte
  /\ Targets \cup {Bound} \subseteq [atyp : {1, 3, 4}, addr : Seq(Byte), port : 0..(2^16 - 1)]
  /\ \A t \in Targets \cup {Bound} :
       /\ t.atyp = 1 => Len(t.addr) = 4
       /\ t.atyp = 4 => Len(t.addr) = 16
       /\ t.atyp = 3 => Len(t.addr) \in Byte

VARIABLES
  cred,     \* the client's credentials, or None
  target,   \* what it asks for
  checks,   \* the proxy has an auth_fn
  client,   \* where the client is in dill_socks5_client_connect
  proxy,    \* where the proxy is in its three functions
  up, down, \* bytes from client to proxy and back
  seen,     \* history: the target the proxy was given, or None
  passed,   \* history: credentials that auth_fn accepted, or None
  aborted   \* a dill_assert failed

socksVars == <<cred, target, checks, client, proxy, up, down, seen, passed, aborted>>

None == [none |-> TRUE]

SocksInit ==
  /\ cred \in Credentials \cup {None} /\ target \in Targets /\ checks \in BOOLEAN
  /\ client = "start" /\ proxy = "auth" /\ up = <<>> /\ down = <<>>
  /\ seen = None /\ passed = None /\ aborted = FALSE

Ver == 5
AuthVer == 1
NoAuthReq == 0
UserPass == 2
NoMethod == 255

Drop(s, n) == SubSeq(s, n + 1, Len(s))
Port(p) == <<p \div 256, p % 256>>
PortOf(hi, lo) == hi * 256 + lo

\* s5_client_connect, s5_client_connectbyname and dill_socks5_proxy_sendreply
\* build the same packet; a name is preceded by its length.
Packet(code, t) ==
  <<Ver, code, 0, t.atyp>> \o (IF t.atyp = 3 THEN <<Len(t.addr)>> ELSE <<>>) \o t.addr \o Port(t.port)

\* s5_recv_command_request_response: length of the packet at the head of s, 0 if
\* that is not known yet.
PacketLen(s) ==
  IF Len(s) < 5 THEN 0
  ELSE CASE s[4] = 1 -> 4 + 6 [] s[4] = 4 -> 4 + 18 [] OTHER -> 5 + s[5] + 2
HasPacket(s) == PacketLen(s) > 0 /\ Len(s) >= PacketLen(s)

\* dill_socks5_proxy_recvcommand, dill_socks5_proxy_recvcommandbyname: the address
\* and the port in a packet.
TargetIn(s) ==
  LET n == PacketLen(s)
  IN [atyp |-> s[4], addr |-> SubSeq(s, IF s[4] = 3 THEN 6 ELSE 5, n - 2),
      port |-> PortOf(s[n - 1], s[n])]

-----------------------------------------------------------------------------
\* s5_client_auth.
ClientGreets ==
  /\ client = "start" /\ client' = "method"
  /\ up' = up \o IF cred = None THEN <<Ver, 1, NoAuthReq>> ELSE <<Ver, 2, NoAuthReq, UserPass>>
  /\ UNCHANGED <<cred, target, checks, proxy, down, seen, passed, aborted>>

ClientMethod ==
  /\ client = "method" /\ Len(down) >= 2 /\ down' = Drop(down, 2)
  /\ \/ down[1] # Ver /\ client' = "failed" /\ UNCHANGED <<up, aborted>>
     \/ down[1] = Ver /\ down[2] = NoAuthReq /\ client' = "request" /\ UNCHANGED <<up, aborted>>
     \/ /\ down[1] = Ver /\ down[2] = UserPass
        /\ IF cred = None THEN aborted' = TRUE /\ UNCHANGED <<client, up>>
           ELSE /\ client' = "verdict" /\ UNCHANGED aborted
                /\ up' = up \o <<AuthVer, Len(cred.user)>> \o cred.user \o <<Len(cred.pass)>> \o cred.pass
     \/ down[1] = Ver /\ down[2] = NoMethod /\ client' = "failed" /\ UNCHANGED <<up, aborted>>
  /\ UNCHANGED <<cred, target, checks, proxy, seen, passed>>

ClientVerdict ==
  /\ client = "verdict" /\ Len(down) >= 2 /\ down' = Drop(down, 2)
  /\ client' = IF down[1] = AuthVer /\ down[2] = 0 THEN "request" ELSE "failed"
  /\ UNCHANGED <<cred, target, checks, proxy, up, seen, passed, aborted>>

\* s5_client_connect, s5_client_connectbyname.
ClientRequests ==
  /\ client = "request" /\ client' = "reply" /\ up' = up \o Packet(1, target)
  /\ UNCHANGED <<cred, target, checks, proxy, down, seen, passed, aborted>>

\* s5_handle_connection_response.
ClientReply ==
  /\ client = "reply" /\ HasPacket(down) /\ down' = Drop(down, PacketLen(down))
  /\ client' = IF down[1] = Ver /\ down[2] = 0 /\ down[3] = 0 THEN "done" ELSE "failed"
  /\ UNCHANGED <<cred, target, checks, proxy, up, seen, passed, aborted>>

-----------------------------------------------------------------------------
\* dill_socks5_proxy_auth: the choice of a method.
ProxyAuthIgnoresCheck ==
  /\ proxy = "auth" /\ Len(up) >= 2 /\ Len(up) >= 2 + up[2] /\ up' = Drop(up, 2 + up[2])
  /\ LET methods == {up[2 + i] : i \in 1..up[2]}
     IN \/ up[1] # Ver /\ proxy' = "failed" /\ UNCHANGED down
        \/ /\ up[1] = Ver /\ NoAuthReq \in methods
           /\ down' = down \o <<Ver, NoAuthReq>> /\ proxy' = "command"
        \/ /\ up[1] = Ver /\ NoAuthReq \notin methods
           /\ down' = down \o <<Ver, NoMethod>> /\ proxy' = "failed"
  /\ UNCHANGED <<cred, target, checks, client, seen, passed, aborted>>
ProxyAuth ==
  /\ proxy = "auth" /\ Len(up) >= 2 /\ Len(up) >= 2 + up[2] /\ up' = Drop(up, 2 + up[2])
  /\ LET methods == {up[2 + i] : i \in 1..up[2]}
     IN \/ up[1] # Ver /\ proxy' = "failed" /\ UNCHANGED down
        \/ /\ up[1] = Ver /\ NoAuthReq \in methods /\ ~checks
           /\ down' = down \o <<Ver, NoAuthReq>> /\ proxy' = "command"
        \/ /\ up[1] = Ver /\ UserPass \in methods /\ checks
           /\ down' = down \o <<Ver, UserPass>> /\ proxy' = "password"
        \/ /\ up[1] = Ver /\ ~(NoAuthReq \in methods /\ ~checks) /\ ~(UserPass \in methods /\ checks)
           /\ down' = down \o <<Ver, NoMethod>> /\ proxy' = "failed"
  /\ UNCHANGED <<cred, target, checks, client, seen, passed, aborted>>

\* Its second part: user and password, each behind its length.
ProxyPasswordNoVerdict ==
  /\ proxy = "password" /\ Len(up) >= 2 /\ Len(up) >= 3 + up[2]
  /\ LET ulen == up[2]
         plen == up[3 + ulen]
         given == [user |-> SubSeq(up, 3, 2 + ulen), pass |-> SubSeq(up, 4 + ulen, 3 + ulen + plen)]
         ok == up[1] = AuthVer /\ given \in Valid
     IN /\ Len(up) >= 3 + ulen + plen /\ up' = Drop(up, 3 + ulen + plen)
        /\ down' = IF ok THEN down \o <<AuthVer, 0>> ELSE down
        /\ proxy' = IF ok THEN "command" ELSE "auth"
        /\ passed' = IF ok THEN given ELSE passed
  /\ UNCHANGED <<cred, target, checks, client, seen, aborted>>
ProxyPassword ==
  /\ proxy = "password" /\ Len(up) >= 2 /\ Len(up) >= 3 + up[2]
  /\ LET ulen == up[2]
         plen == up[3 + ulen]
         given == [user |-> SubSeq(up, 3, 2 + ulen), pass |-> SubSeq(up, 4 + ulen, 3 + ulen + plen)]
         ok == up[1] = AuthVer /\ given \in Valid
     IN /\ Len(up) >= 3 + ulen + plen /\ up' = Drop(up, 3 + ulen + plen)
        /\ down' = IF up[1] # AuthVer THEN down
                   ELSE down \o <<AuthVer, IF ok THEN 0 ELSE 255>>
        /\ proxy' = IF ok THEN "command" ELSE "failed"
        /\ passed' = IF ok THEN given ELSE passed
  /\ UNCHANGED <<cred, target, checks, client, seen, aborted>>

\* dill_socks5_proxy_recvcommand, dill_socks5_proxy_recvcommandbyname.
ProxyCommand ==
  /\ proxy = "command" /\ HasPacket(up) /\ up' = Drop(up, PacketLen(up))
  /\ IF up[1] = Ver /\ up[3] = 0 /\ up[2] \in 1..3
     THEN proxy' = "answer" /\ seen' = TargetIn(up)
     ELSE proxy' = "failed" /\ UNCHANGED seen
  /\ UNCHANGED <<cred, target, checks, client, down, passed, aborted>>

\* dill_socks5_proxy_sendreply, with what the proxy program found out.
ProxyReply(reply) ==
  /\ proxy = "answer" /\ down' = down \o Packet(reply, Bound)
  /\ proxy' = IF reply = 0 THEN "done" ELSE "failed"
  /\ UNCHANGED <<cred, target, checks, client, up, seen, passed, aborted>>

-----------------------------------------------------------------------------
\* An operation fails, or finds that the other side is gone.
ClientFails ==
  /\ client \notin {"done", "failed"} /\ client' = "failed"
  /\ UNCHANGED <<cred, target, checks, proxy, up, down, seen, passed, aborted>>
ProxyFails ==
  /\ proxy \notin {"done", "failed"} /\ proxy' = "failed"
  /\ UNCHANGED <<cred, target, checks, client, up, down, seen, passed, aborted>>

\* Afterwards the program uses the connection; 999 is no byte of the handshake.
ClientData ==
  /\ client = "done" /\ up = <<>> /\ up' = <<999>>
  /\ UNCHANGED <<cred, target, checks, client, proxy, down, seen, passed, aborted>>

ClientNext == ClientGreets \/ ClientMethod \/ ClientVerdict \/ ClientRequests \/ ClientReply
ProxyNext ==
  ProxyAuth \/ ProxyPassword \/ ProxyCommand \/ \E reply \in Replies : ProxyReply(reply)
SocksNext == ~aborted /\ (ClientNext \/ ProxyNext \/ ClientFails \/ ProxyFails \/ ClientData)

SocksSpec == SocksInit /\ [][SocksNext]_socksVars

\* Neither side waits for input that is there; a wait for a peer that has given
\* up ends, because the peer closes the socket.
SocksFairness ==
  /\ WF_socksVars(~aborted /\ ClientNext) /\ WF_socksVars(~aborted /\ ProxyNext)
  /\ WF_socksVars(~aborted /\ proxy = "failed" /\ ClientFails)
  /\ WF_socksVars(~aborted /\ client = "failed" /\ ProxyFails)

-----------------------------------------------------------------------------
\* A client that was told of success is connected to what it asked for, by a proxy
\* that let it in: with its own credentials if the proxy checks them, and nothing
\* of the handshake is left in the connection (the lengths that the two sides
\* compute for a packet agree). No assertion of the client fails.
SocksAgree ==
  /\ ~aborted
  /\ seen # None => seen = target
  /\ passed # None => passed = cred
  /\ proxy \in {"command", "answer", "done"} /\ checks => passed # None
  /\ client = "done" => /\ proxy = "done" /\ seen = target
                        /\ down = <<>> /\ up \in {<<>>, <<999>>}

\* Once begun the exchange ends for both sides: neither waits for bytes the other does not
\* mean to send.
SocksEnds == client # "start" ~> client \in {"done", "failed"} /\ proxy \in {"done", "failed"}
=============================================================================
