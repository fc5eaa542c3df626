-------------------------------- MODULE Layers --------------------------------
(***************************************************************************)
(* Who owns what while sockets are made, stacked on each other, detached   *)
(* and closed: the constructors, detach, close and hclose functions of     *)
(* tcp.c, ipc.c, udp.c, prefix.c, suffix.c, term.c, http.c, ws.c, tls.c.   *)
(*                                                                         *)
(* A function is a script: its fallible steps in order, each with what the *)
(* error path behind it does (the labels of the function, then those of    *)
(* the wrapper that allocated the object). Any step may fail, and nobody   *)
(* else touches the objects of a call, so a call is one action. Data are   *)
(* left out; see Stream and Sessions.                                      *)
(***************************************************************************)
EXTENDS SeqOps, SequencesExt

CONSTANT MaxHeight   \* bound on the protocols stacked on each other

ASSUME LayersAssumption == MaxHeight \in Nat

VARIABLES
  sys,     \* [tower, held, mine, n, bad]: see LayersInit
  last     \* the last call: [fn, ok, refused, open, lost, bad]

layerVars == <<sys, last>>

\* tower: the stacked sockets, transport first. A level has its protocol, the
\* handle it is known by, the resources its hclose releases, and the memory it
\* lives in, if that belongs to another level.
\* held: the resources in use; mine: those the call in progress has taken;
\* n: number of the next resource; bad: the call touched something not in use;
\* refused: it returned without closing the sockets, whose handles it alone knew.
\* last: the function, whether it succeeded, the protocols of the sockets that are
\* open after it, the kinds of things in use it left out of reach, and bad.
LayersInit ==
  /\ sys = [tower |-> <<>>, held |-> {}, mine |-> {}, n |-> 0, bad |-> FALSE,
            refused |-> FALSE]
  /\ last = [fn |-> "none", ok |-> TRUE, refused |-> FALSE, open |-> <<>>, lost |-> {}, bad |-> FALSE]

\* The interface by which a protocol is used from above (the hquery functions).
Bytestream == {"tcp", "ipc", "tls"}
Message == {"udp", "prefix", "suffix", "term", "ws"}

\* A step: what it does, and what is done if it fails.
S(does, undo) == [does |-> does, undo |-> undo]

-----------------------------------------------------------------------------
\* Transports. "fd" is socket(), accept() or the dup() of dill_fd_own; "try"
\* stands for the calls that may fail and take nothing.

\* dill_tcp_connect, dill_tcp_connect_mem: socket, unblock, connect, makeconn.
TcpConnect ==
  <<S("malloc", <<>>), S("fd", <<"free">>), S("try", <<"fdclose", "free">>),
    S("hmake", <<"fdclose", "free">>)>>

\* dill_tcp_accept, dill_tcp_accept_mem: the listener is somebody else's.
TcpAccept ==
  <<S("malloc", <<>>), S("fd", <<"free">>), S("try", <<"fdclose", "free">>),
    S("hmake", <<"fdclose", "free">>)>>

\* dill_tcp_fromfd, dill_tcp_fromfd_mem: fd_check, fd_own, unblock. Once the
\* descriptor is owned no error path closes it.
TcpFromfd ==
  <<S("malloc", <<>>), S("try", <<"free">>), S("fd", <<"free">>),
    S("hmake", <<"free">>)>>

\* dill_tcp_listen, dill_tcp_listen_mem: unblock, bind, listen, getsockname.
TcpListen ==
  <<S("malloc", <<>>), S("fd", <<"free">>), S("try", <<"fdclose", "free">>),
    S("hmake", <<"fdclose", "free">>)>>

\* dill_tcp_listener_fromfd, dill_tcp_listener_fromfd_mem.
TcpListenerFromfd ==
  <<S("malloc", <<>>), S("try", <<"free">>), S("fd", <<"free">>),
    S("hmake", <<"free">>)>>

\* The same in ipc.c; connect and listen begin with dill_ipc_resolve.
IpcConnect ==
  <<S("malloc", <<>>), S("try", <<"free">>), S("fd", <<"free">>),
    S("try", <<"fdclose", "free">>), S("hmake", <<"fdclose", "free">>)>>
IpcAccept ==
  <<S("malloc", <<>>), S("fd", <<"free">>), S("try", <<"fdclose", "free">>),
    S("hmake", <<"fdclose", "free">>)>>
IpcFromfd ==
  <<S("malloc", <<>>), S("try", <<"free">>), S("fd", <<"free">>),
    S("hmake", <<"free">>)>>
IpcListen ==
  <<S("malloc", <<>>), S("try", <<"free">>), S("fd", <<"free">>),
    S("try", <<"fdclose", "free">>), S("hmake", <<"fdclose", "free">>)>>
IpcListenerFromfd ==
  <<S("malloc", <<>>), S("try", <<"free">>), S("fd", <<"free">>),
    S("hmake", <<"free">>)>>

\* dill_ipc_pair, dill_ipc_pair_mem: two of everything ("second ..."). The second
\* handle failing closes the first socket and the second descriptor, and forgets
\* the second object. The second socket of a pair is somebody else's.
IpcPair ==
  <<S("fd", <<>>), S("second fd", <<>>), S("try", <<"fdclose", "second fdclose">>),
    S("malloc", <<"fdclose", "second fdclose">>),
    S("second malloc", <<"free", "fdclose", "second fdclose">>),
    S("hmake", <<"second free", "free", "fdclose", "second fdclose">>),
    S("second hmake", <<"hclose", "second fdclose">>)>>

\* dill_udp_open, dill_udp_open_mem: unblock and getsockname; bind may fail, but
\* its result is not looked at.
UdpOpen ==
  <<S("malloc", <<>>), S("try", <<"free">>), S("fd", <<"free">>),
    S("try", <<"fdclose", "free">>), S("hmake", <<"fdclose", "free">>)>>

-----------------------------------------------------------------------------
\* Protocols on top of a socket, which they own: whatever fails, it is closed.
\* "own" is dill_hown, which closes the handle itself if it fails; "bsock" and
\* "msock" query the interface of the socket underneath.

PrefixAttach ==
  <<S("malloc", <<"hclose">>), S("try", <<"hclose", "free">>), S("own", <<"hclose", "free">>),
    S("bsock", <<"hclose", "free">>), S("hmake", <<"hclose", "free">>)>>
SuffixAttach ==
  <<S("malloc", <<"hclose">>), S("try", <<"hclose", "free">>), S("own", <<"hclose", "free">>),
    S("bsock", <<"hclose", "free">>), S("hmake", <<"hclose", "free">>)>>
TermAttach ==
  <<S("malloc", <<"hclose">>), S("try", <<"hclose", "free">>), S("own", <<"hclose", "free">>),
    S("msock", <<"hclose", "free">>), S("hmake", <<"hclose", "free">>)>>

\* dill_http_attach_mem: SUFFIX and TERM are attached in memory of its own object.
\* Each of them owns, and each closes what it was given if it fails.
HttpLayers ==
  <<S("bsock", <<"hclose", "free">>), S("own", <<"hclose", "free">>),
    S("own", <<"hclose", "free">>), S("suffix", <<"hclose", "free">>),
    S("own", <<"hclose", "free">>), S("term", <<"hclose", "free">>)>>
HttpAttach ==
  <<S("malloc", <<"hclose">>)>> \o HttpLayers \o <<S("hmake", <<"hclose", "free">>)>>

\* dill_ws_attach_client and dill_ws_attach_server with DILL_WS_NOHTTP.
WsAttachNohttp ==
  <<S("malloc", <<"hclose">>), S("bsock", <<"hclose", "free">>),
    S("own", <<"hclose", "free">>), S("hmake", <<"hclose", "free">>)>>

\* With HTTP: a temporary HTTP socket in memory of the function's frame, messages
\* over it, and dill_http_detach. When the status is not 101 the client returns
\* without closing anything ("leave").
WsHttp(answer) ==
  <<S("malloc", <<"hclose">>), S("bsock", <<"hclose", "free">>), S("own", <<"hclose", "free">>)>>
  \o HttpLayers \o <<S("http", <<"hclose", "free">>), S("try", <<"hclose", "free">>)>>
  \o answer
  \o <<S("lift", <<>>), S("try", <<"hclose", "free">>), S("pop", <<>>),
       S("try", <<"hclose", "free">>), S("pop", <<>>), S("hmake", <<"hclose", "free">>)>>
WsAttachClient == WsHttp(<<S("try", <<"leave", "free">>), S("try", <<"hclose", "free">>)>>)
WsAttachServer == WsHttp(<<>>)

\* dill_tls_attach_client_mem, dill_tls_attach_server_mem. SSL_free frees the BIO
\* that was set, so error4 frees it twice; a failed dill_hown forgets OpenSSL's
\* objects.
TlsAttachClient ==
  <<S("malloc", <<"hclose">>), S("bsock", <<"hclose", "free">>),
    S("ctx", <<"hclose", "free">>), S("ssl", <<"ctxfree", "hclose", "free">>),
    S("bio", <<"sslfree", "ctxfree", "hclose", "free">>), S("own", <<"hclose", "free">>),
    S("try", <<"biofree", "sslfree", "ctxfree", "hclose", "free">>),
    S("hmake", <<"biofree", "sslfree", "ctxfree", "hclose", "free">>)>>
TlsAttachServer ==
  <<S("malloc", <<"hclose">>), S("bsock", <<"hclose", "free">>),
    S("ctx", <<"hclose", "free">>), S("try", <<"ctxfree", "hclose", "free">>),
    S("ssl", <<"ctxfree", "hclose", "free">>),
    S("bio", <<"sslfree", "ctxfree", "hclose", "free">>), S("own", <<"hclose", "free">>),
    S("try", <<"biofree", "sslfree", "ctxfree", "hclose", "free">>),
    S("hmake", <<"biofree", "sslfree", "ctxfree", "hclose", "free">>)>>

-----------------------------------------------------------------------------
\* Leaving a protocol. "pop" frees the object; the socket below is the caller's
\* again, and the handle stays in the table, where no one can use it.

PrefixDetach == <<S("try", <<"hclose">>), S("pop", <<>>)>>
SuffixDetach == <<S("try", <<"hclose">>), S("pop", <<>>)>>
TermDetach == <<S("try", <<"hclose">>), S("pop", <<>>)>>

\* dill_http_detach: TERM and SUFFIX are detached, each closing everything below
\* if it fails; the object is freed in any case ("lift" keeps it until then).
HttpDetachFreesFirst ==
  <<S("lift", <<>>), S("free", <<>>), S("try", <<"hclose">>), S("pop", <<>>),
    S("try", <<"hclose">>), S("pop", <<>>)>>
HttpDetach ==
  <<S("lift", <<>>), S("try", <<"hclose", "free">>), S("pop", <<>>),
    S("try", <<"hclose", "free">>), S("pop", <<>>), S("free", <<>>)>>

\* dill_ws_detach: an error closes nothing.
WsDetach == <<S("try", <<>>), S("pop", <<>>)>>

\* dill_tls_detach, dill_tcp_close, dill_ipc_close call the hclose function of
\* the object directly, also after an error.
TlsDetachLeavesOpen == <<S("try", <<>>), S("pop", <<>>)>>
TlsDetach == <<S("try", <<"direct">>), S("pop", <<>>)>>
TcpClose == <<S("try", <<"direct">>), S("direct", <<>>)>>
IpcClose == <<S("try", <<"direct">>), S("direct", <<>>)>>
Hclose == <<S("hclose", <<>>)>>

-----------------------------------------------------------------------------
\* What the steps do.

Acquire(st, kind) ==
  [st EXCEPT !.held = @ \cup {<<kind, st.n>>}, !.mine = @ \cup {<<kind, st.n>>}, !.n = @ + 1]

Release(st, R) == [st EXCEPT !.held = @ \ R, !.bad = @ \/ ~(R \subseteq st.held)]

Mine(st, kind) == {r \in st.mine : r[1] = kind}

\* dill_hmake: the level gets a handle and the resources the call has taken.
Push(st, proto, res, in) ==
  [st EXCEPT !.tower = Append(@, [proto |-> proto, handle |-> <<"handle", st.n>>,
                                  res |-> res, in |-> in]),
             !.held = @ \cup {<<"handle", st.n>>}, !.n = @ + 1]

\* dill_hown: another handle for the same socket, and the old one is returned.
Own(st) ==
  LET old == Last(st.tower)
  IN [Release(st, {old.handle}) EXCEPT
        !.tower = Append(Front(@), [old EXCEPT !.handle = <<"handle", st.n>>]),
        !.held = (@ \ {old.handle}) \cup {<<"handle", st.n>>}, !.n = @ + 1]

\* The hclose functions: the sockets underneath first, then the own resources.
CloseLevel(st, l) ==
  [Release(st, l.res \cup {l.handle}) EXCEPT !.bad = @ \/ ~(l.in \subseteq st.held)]
CloseAll(st) == [FoldLeft(CloseLevel, st, st.tower) EXCEPT !.tower = <<>>]

\* The hclose function of the object, without dill_hclose: the handle stays.
CloseDirectly(st) ==
  [Release(CloseAll([st EXCEPT !.tower = Front(@)]), Last(st.tower).res) EXCEPT !.tower = <<>>]

\* The object goes, the sockets underneath and the handle stay.
Pop(st) ==
  LET top == Last(st.tower)
  IN [Release(st, top.res) EXCEPT !.tower = Front(@), !.bad = @ \/ ~(top.in \subseteq st.held)]

\* SSL_free frees the BIO that was set too.
Frees ==
  [free |-> {"malloc"}, fdclose |-> {"fd"}, ctxfree |-> {"ctx"}, sslfree |-> {"ssl", "bio"},
   biofree |-> {"bio"}] @@ ("second free" :> {"second malloc"}) @@ ("second fdclose" :> {"second fd"})
Kinds == UNION {Frees[f] : f \in DOMAIN Frees}

Do(fn, proto, st, op) ==
  CASE op \in Kinds -> Acquire(st, op)
    [] op \in DOMAIN Frees -> Release(st, {r \in st.mine : r[1] \in Frees[op]})
    [] op = "hmake" ->
         Push([st EXCEPT !.mine = {r \in @ : r[1] \in {"second malloc", "second fd"}}], proto,
              {r \in st.mine : r[1] \notin {"second malloc", "second fd"}}, {})
    [] op = "second hmake" -> [st EXCEPT !.held = @ \ st.mine]
    [] op \in {"suffix", "term", "http"} ->
         Push(st, op, {}, IF fn = "http_attach" THEN Mine(st, "malloc") ELSE {})
    [] op = "own" -> Own(st)
    [] op = "hclose" -> CloseAll(st)
    [] op = "direct" -> CloseDirectly(st)
    [] op = "pop" -> Pop(st)
    [] op = "lift" -> [st EXCEPT !.tower = Front(@), !.mine = @ \cup Last(st.tower).res]
    [] op = "leave" -> [st EXCEPT !.refused = TRUE]
    [] OTHER -> st

\* Whether step op may succeed, and whether it may fail.
CallSucceeds(st, op) ==
  /\ op = "bsock" => Last(st.tower).proto \in Bytestream
  /\ op = "msock" => Last(st.tower).proto \in Message
CallFails(op) == op \notin {"second fd", "free", "pop", "lift", "direct", "hclose"}

\* Between calls only the identity of resources matters: number them by level.
Renumbered(tower) ==
  LET Level(r) == CHOOSE i \in DOMAIN tower : r \in tower[i].res \cup {tower[i].handle}
      Name(R) == {<<r[1], Level(r)>> : r \in R}
      levels == [i \in DOMAIN tower |-> [tower[i] EXCEPT
                   !.handle = <<"handle", i>>, !.res = Name(@), !.in = Name(@)]]
  IN [tower |-> levels, mine |-> {}, n |-> Len(tower) + 1, bad |-> FALSE, refused |-> FALSE,
      held |-> UNION {levels[i].res \cup {levels[i].handle} : i \in DOMAIN levels}]

\* A call: the first k - 1 steps succeed, step k, if there is one, fails.
Call(fn, script, proto) ==
  \E k \in {j \in DOMAIN script : CallFails(script[j].does)} \cup {Len(script) + 1} :
    LET Run(st, op) == Do(fn, proto, st, op)
        reached == [i \in 0..Len(script) |->
          FoldLeft(Run, sys, [j \in 1..i |-> script[j].does])]
        ok == k > Len(script)
        end == IF ok THEN reached[Len(script)] ELSE FoldLeft(Run, reached[k - 1], script[k].undo)
        \* the program does not know the handle of what a refused call left open
        tower == IF end.refused THEN <<>> ELSE end.tower
        known == UNION {tower[i].res \cup {tower[i].handle} : i \in DOMAIN tower}
    IN /\ \A i \in 1..(k - 1) : CallSucceeds(reached[i - 1], script[i].does)
       /\ last' = [fn |-> fn, ok |-> ok, refused |-> end.refused,
                   open |-> [i \in DOMAIN end.tower |-> end.tower[i].proto],
                   lost |-> {r[1] : r \in end.held \ known}, bad |-> end.bad]
       /\ sys' = Renumbered(tower)

\* The functions with the suffix _mem take the memory of the object from the caller.
Mem(script, mem) == IF mem THEN SelectSeq(script, LAMBDA s : s.does # "malloc" /\ s.does # "second malloc")
                    ELSE script

\* The program makes a transport or a listener when it has none,
Make ==
  /\ sys.tower = <<>>
  /\ \E mem \in BOOLEAN :
       \/ Call("tcp_connect", Mem(TcpConnect, mem), "tcp")
       \/ Call("tcp_accept", Mem(TcpAccept, mem), "tcp")
       \/ Call("tcp_fromfd", Mem(TcpFromfd, mem), "tcp")
       \/ Call("tcp_listen", Mem(TcpListen, mem), "tcp listener")
       \/ Call("tcp_listener_fromfd", Mem(TcpListenerFromfd, mem), "tcp listener")
       \/ Call("ipc_connect", Mem(IpcConnect, mem), "ipc")
       \/ Call("ipc_accept", Mem(IpcAccept, mem), "ipc")
       \/ Call("ipc_fromfd", Mem(IpcFromfd, mem), "ipc")
       \/ Call("ipc_listen", Mem(IpcListen, mem), "ipc listener")
       \/ Call("ipc_listener_fromfd", Mem(IpcListenerFromfd, mem), "ipc listener")
       \/ Call("ipc_pair", Mem(IpcPair, mem), "ipc")
       \/ Call("udp_open", Mem(UdpOpen, mem), "udp")

\* attaches a protocol to whatever socket it has,
Attach ==
  /\ sys.tower # <<>> /\ Len(sys.tower) < MaxHeight
  /\ \E mem \in BOOLEAN :
       \/ Call("prefix_attach", Mem(PrefixAttach, mem), "prefix")
       \/ Call("suffix_attach", Mem(SuffixAttach, mem), "suffix")
       \/ Call("term_attach", Mem(TermAttach, mem), "term")
       \/ Call("http_attach", Mem(HttpAttach, mem), "http")
       \/ Call("ws_attach_nohttp", Mem(WsAttachNohttp, mem), "ws")
       \/ Call("ws_attach_client", Mem(WsAttachClient, mem), "ws")
       \/ Call("ws_attach_server", Mem(WsAttachServer, mem), "ws")
       \/ Call("tls_attach_client", Mem(TlsAttachClient, mem), "tls")
       \/ Call("tls_attach_server", Mem(TlsAttachServer, mem), "tls")

\* and detaches or closes the topmost one.
Leave ==
  /\ sys.tower # <<>>
  /\ LET top == Last(sys.tower).proto
     IN \/ top = "prefix" /\ Call("prefix_detach", PrefixDetach, top)
        \/ top = "suffix" /\ Call("suffix_detach", SuffixDetach, top)
        \/ top = "term" /\ Call("term_detach", TermDetach, top)
        \/ top = "http" /\ Call("http_detach", HttpDetach, top)
        \/ top = "ws" /\ Call("ws_detach", WsDetach, top)
        \/ top = "tls" /\ Call("tls_detach", TlsDetach, top)
        \/ top = "tcp" /\ Call("tcp_close", TcpClose, top)
        \/ top = "ipc" /\ Call("ipc_close", IpcClose, top)
        \/ Call("hclose", Hclose, top)

LayersNext == Make \/ Attach \/ Leave

-----------------------------------------------------------------------------
\* The flaws of the functions above. Descriptors that were owned, the second object
\* of a pair and OpenSSL's objects are forgotten; handles of sockets that are gone
\* stay in the table; a client that was refused abandons the sockets it was given.
KnownLosses(fn, refused) ==
  CASE fn \in {"tcp_fromfd", "tcp_listener_fromfd", "ipc_fromfd", "ipc_listener_fromfd"} -> {"fd"}
    [] fn = "ipc_pair" -> {"second malloc"}
    [] fn \in {"tls_attach_client", "tls_attach_server"} -> {"ctx", "ssl", "bio"}
    [] fn = "ws_attach_client" /\ refused -> {"handle", "fd", "malloc", "ctx", "ssl", "bio"}
    [] fn \in {"ws_attach_client", "ws_attach_server", "prefix_detach", "suffix_detach",
               "term_detach", "http_detach", "ws_detach", "tls_detach", "tcp_close",
               "ipc_close"} -> {"handle"}
    [] OTHER -> {}
KnownMisuse == {"tls_attach_client", "tls_attach_server"}

\* However a call fails or succeeds, nothing stays in use that no handle leads to,
\* and nothing is freed or closed that was freed before (the goto chains of all
\* the constructors and of the detach and close functions), with the exceptions
\* above.
NothingLost ==
  last.lost \subseteq KnownLosses(last.fn, last.refused) /\ (last.bad => last.fn \in KnownMisuse)

\* "The socket is closed even in the case of error" (man pages of the detach and
\* close functions), down to the transport, and so it is when attaching fails, with
\* two exceptions: dill_ws_detach, and dill_ws_attach_client when the server does
\* not answer with the status 101 (ws.c:122).
FailureCloses ==
  ~last.ok => \/ last.open = <<>>
              \/ last.fn = "ws_detach"
              \/ last.fn = "ws_attach_client" /\ last.refused

\* man/ws_detach.3: "The socket is closed even in the case of error."
ErrorCloses == ~last.ok => last.open = <<>>
=============================================================================
