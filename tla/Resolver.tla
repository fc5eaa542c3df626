------------------------------- MODULE Resolver -------------------------------
(***************************************************************************)
(* dill_ipaddr_remotes (ipaddr.c) and the resolver under it (dns_ai_*,     *)
(* dns_res_* in dns.c). Every state of dns_res_exec is an action, since a  *)
(* call runs from state to state until it has to wait. A packet is a       *)
(* question, a set of records and a result code; how packets are encoded   *)
(* is left out, and DnsSocket models how they travel. The resolver is used *)
(* as libdill uses it: without a cache, for addresses only.                *)
(***************************************************************************)
EXTENDS Integers, Sequences, FiniteSets

CONSTANTS
  Candidates,  \* the names dns_resconf_search makes of the one asked for, in order
  Aliases,     \* further names, to which servers may point
  Given,       \* sets of numbers of addresses that an answer may give for a name
  Lookup,      \* resconf->lookup: "b" for bind, "f" for the hosts file
  HostsFile,   \* records of the hosts file
  Servers,     \* sets of IPv4 name servers in resolv.conf, by size
  MaxAttempts, \* resconf->options.attempts
  MaxDepth,    \* DNS_R_MAXDEPTH
  MaxChain,    \* the aliases dns_d_cname follows (7)
  Naddrs,      \* size of the array of the caller
  MaxReferrals \* bound on the answers of servers that are no authority

ASSUME ResolverAssumption ==
  /\ Candidates \in Seq(STRING) /\ Servers \subseteq Nat /\ MaxAttempts \in Nat \ {0} /\ MaxDepth \in Nat \ {0}
  /\ MaxChain \in Nat /\ Naddrs \in Nat \ {0}
  /\ MaxReferrals \in Nat /\ \A d \in Given : d \subseteq Nat

VARIABLES
  recurse, servers, deadline,  \* the configuration, and whether there is a deadline
  todo,     \* types still to be looked up (the PREF modes do one after the other)
  phase,    \* "looking", "returned", "crashed"
  ai,       \* dns_addrinfo: "check", "foreach", and the records it has returned
  stack, sp, search, nodata,   \* dns_resolver
  wire,       \* its socket: "idle", "pending", "lost" (the answer does not come)
  out,      \* addresses in the array of the caller
  said,     \* history: records received for this type, and those of the hosts file
  hit,      \* history: an address came in an answer to the question itself
  referrals \* history: answers of servers that are no authority

resVars == <<recurse, servers, deadline, todo, phase, ai, stack, sp, search, nodata, wire, out, said, hit, referrals>>

Range1(s) == {s[i] : i \in DOMAIN s}
HintsName == "hints.local."
NsName == "ns"
NoQuery == [name |-> "", type |-> ""]
NoPacket == [none |-> TRUE]
Packet1(q, recs, rcode) == [none |-> FALSE, q |-> q, recs |-> recs, rcode |-> rcode]
Address(n, t, i) == [name |-> n, type |-> t, data |-> i]
Alias(n, target) == [name |-> n, type |-> "CNAME", data |-> target]

\* dns_res_reset_frame.
NewFrame(q) ==
  [state |-> "init", which |-> 1, attempts |-> 0, query |-> q, answer |-> NoPacket,
   ns |-> 0, host |-> HintsName, glue |-> 0, tried |-> 0]

\* dns_res_open, dns_ai_open and dns_res_submit for the next type.
FreshStack == [i \in 0..(MaxDepth - 1) |-> NewFrame(NoQuery)]
Fresh ==
  /\ ai' = [state |-> "check", given |-> {}] /\ stack' = FreshStack
  /\ sp' = 0 /\ search' = 0 /\ nodata' = NoPacket /\ wire' = "idle"

\* The modes of dill_ipaddr_remotes, for a name that is no literal address.
ResolverInit ==
  /\ recurse \in BOOLEAN /\ servers \in Servers /\ deadline \in BOOLEAN
  /\ todo \in {<<"A">>, <<"AAAA">>, <<"A", "AAAA">>, <<"AAAA", "A">>}
  /\ phase = "looking" /\ out = <<>> /\ said = HostsFile /\ hit = FALSE /\ referrals = 0
  /\ ai = [state |-> "check", given |-> {}] /\ stack = FreshStack
  /\ sp = 0 /\ search = 0 /\ nodata = NoPacket /\ wire = "idle"

F == stack[sp]
Qtype == Head(todo)
Matching(p, n, t) == {r \in p.recs : r.name = n /\ r.type = t}

\* dgoto, within a frame. A frame that has been popped is not looked at again once
\* its answer was used, and is forgotten here.
Goto(state) == stack' = [stack EXCEPT ![sp].state = state]
Set(frame) == stack' = [stack EXCEPT ![sp] = frame]
SetAndForget(frame) == stack' = [stack EXCEPT ![sp] = frame, ![sp + 1] = NewFrame(NoQuery)]
Config == <<recurse, servers, deadline>>
Outside == <<Config, todo, phase, ai, out, said, hit, referrals>>
In(state) == phase = "looking" /\ ai.state = "check" /\ F.state = state

-----------------------------------------------------------------------------
\* dns_res_glue: what earlier answers say about the question of this frame.
Known(q) ==
  LET packets == {stack[i].answer : i \in {j \in 0..sp : ~stack[j].answer.none}}
      About(t) == {r \in UNION {p.recs : p \in packets} : r.name = q.name /\ r.type = t}
  IN IF About(q.type) # {} THEN About(q.type) ELSE About("CNAME")

Glue ==
  /\ In("init")
  /\ LET recs == Known(F.query)
         p == Packet1(F.query, recs, "ok")
     IN IF sp = 0 \/ recs = {} THEN Goto("switch")
        ELSE Set([F EXCEPT !.answer = p,
                    !.state = IF Matching(p, F.query.name, F.query.type) # {} THEN "finish" ELSE "cname0"])
  /\ UNCHANGED <<Outside, sp, search, nodata, wire>>

\* The next source; the last resort is the first answer without records.
Switch ==
  /\ In("switch")
  /\ IF F.which <= Len(Lookup)
     THEN /\ Set([F EXCEPT !.which = @ + 1, !.state = IF Lookup[F.which] = "b" THEN "bind" ELSE "file"])
          /\ UNCHANGED nodata
     ELSE IF sp = 0 /\ ~nodata.none
     THEN Set([F EXCEPT !.answer = nodata, !.state = "finish"]) /\ nodata' = NoPacket
     ELSE Goto("servfail") /\ UNCHANGED nodata
  /\ UNCHANGED <<Outside, sp, search, wire>>

\* dns_hosts_query, for one name or for all candidates.
InHosts(n, t) == {r \in HostsFile : r.name = n /\ r.type = t}
File ==
  /\ In("file")
  /\ LET names == IF sp > 0 THEN <<F.query.name>> ELSE Candidates
         type == IF sp > 0 THEN F.query.type ELSE Qtype
         found == {i \in DOMAIN names : InHosts(names[i], type) # {}}
         i == CHOOSE i \in found : \A j \in found : i <= j
     IN IF found = {} THEN Goto("switch") /\ UNCHANGED hit
        ELSE /\ Set([F EXCEPT !.state = "finish",
                       !.answer = Packet1([name |-> names[i], type |-> type], InHosts(names[i], type), "ok")])
             /\ hit' = (hit \/ sp = 0)
  /\ search' = IF sp = 0 THEN Len(Candidates) ELSE search
  /\ UNCHANGED <<Config, todo, phase, ai, out, said, sp, nodata, wire, referrals>>

Bind ==
  /\ In("bind")
  /\ IF sp > 0 THEN Goto("hints") /\ UNCHANGED search ELSE Goto("search") /\ search' = 0
  /\ UNCHANGED <<Outside, sp, nodata, wire>>

\* dns_resconf_search goes on where it was, in whatever frame that is.
Search ==
  /\ In("search")
  /\ IF search = Len(Candidates) THEN Goto("switch") /\ UNCHANGED search
     ELSE /\ search' = search + 1
          /\ Set([F EXCEPT !.query = [name |-> Candidates[search + 1], type |-> Qtype], !.state = "hints"])
  /\ UNCHANGED <<Outside, sp, nodata, wire>>

\* dns_hints_query: one NS record, and an A record for every IPv4 server.
Hints ==
  /\ In("hints") /\ Set([F EXCEPT !.host = HintsName, !.glue = servers, !.state = "iterate"])
  /\ UNCHANGED <<Outside, sp, search, nodata, wire>>
Iterate ==
  /\ In("iterate") /\ Set([F EXCEPT !.ns = 1, !.state = "foreach ns"])
  /\ UNCHANGED <<Outside, sp, search, nodata, wire>>

ForeachNsForgets ==
  /\ In("foreach ns")
  /\ Set(IF F.ns > 0 THEN [F EXCEPT !.ns = 0, !.tried = 0, !.state = "foreach a"]
         ELSE [F EXCEPT !.state = "iterate"])
  /\ UNCHANGED <<Outside, sp, search, nodata, wire>>
ForeachNs ==
  /\ In("foreach ns")
  /\ Set(IF F.ns > 0 THEN [F EXCEPT !.ns = 0, !.tried = 0, !.state = "foreach a"]
         ELSE [F EXCEPT !.attempts = @ + 1,
                 !.state = IF F.attempts + 1 < MaxAttempts THEN "iterate" ELSE "switch"])
  /\ UNCHANGED <<Outside, sp, search, nodata, wire>>

\* The address of a name server is looked up in a frame of its own.
Push(q, state) ==
  /\ stack' = [stack EXCEPT ![sp].state = state, ![sp + 1] = NewFrame(q)] /\ sp' = sp + 1
Resolv0Ns ==
  /\ In("resolv0")
  /\ IF sp + 1 >= MaxDepth THEN Goto("foreach ns") /\ UNCHANGED sp
     ELSE Push([name |-> F.host, type |-> "A"], "resolv1")
  /\ UNCHANGED <<Outside, search, nodata, wire>>
FoundNs == Matching(stack[sp + 1].answer, stack[sp + 1].query.name, "A")
Resolv1Ns ==
  /\ In("resolv1") /\ (F.host # HintsName \/ FoundNs = {})
  /\ SetAndForget([F EXCEPT !.glue = @ + Cardinality(FoundNs), !.ns = IF FoundNs # {} THEN 1 ELSE @,
                     !.state = "foreach ns"])
  /\ UNCHANGED <<Outside, sp, search, nodata, wire>>

\* The next address of this name server is asked (dns_so_submit).
ForeachA ==
  /\ In("foreach a")
  /\ IF F.tried < F.glue
     THEN Set([F EXCEPT !.tried = @ + 1, !.state = "query a"]) /\ wire' = "pending"
     ELSE Goto(IF F.tried = 0 THEN "resolv0" ELSE "foreach ns") /\ UNCHANGED wire
  /\ UNCHANGED <<Outside, sp, search, nodata>>

\* What a name server may say: addresses of the name or none, and beside them an
\* alias or none, with addresses of the alias or without.
Answers(q) ==
  LET addresses(n, d) == {Address(n, q.type, i) : i \in d}
      alias(t, d) == {Alias(q.name, t)} \cup addresses(t, d)
  IN {addresses(q.name, d) \cup a :
        d \in Given, a \in {{}} \cup {alias(t, d) : t \in Aliases, d \in Given}}

\* DNS_R_QUERY_A, when an answer has come.
Answered(recs) ==
  /\ In("query a") /\ wire = "pending" /\ wire' = "idle"
  /\ LET p == Packet1(F.query, recs, "ok")
         state == IF Matching(p, F.query.name, F.query.type) # {} THEN "finish"
                  ELSE IF Matching(p, F.query.name, "CNAME") # {} THEN "cname0"
                  ELSE IF ~recurse THEN "search" ELSE "finish"
     IN /\ nodata' = IF state = "search" /\ nodata.none THEN p ELSE nodata
        /\ Set([F EXCEPT !.state = state,
                  !.answer = IF state = "search" /\ nodata.none THEN NoPacket ELSE p])
        /\ hit' = (hit \/ (sp = 0 /\ Matching(p, F.query.name, F.query.type) # {}))
  /\ said' = said \cup recs
  /\ UNCHANGED <<Config, todo, phase, ai, out, sp, search, referrals>>

\* A server that is no authority refers the resolver to another one, or says
\* nothing, and the next one is asked (options.recurse only).
Referred(glue) ==
  /\ recurse /\ In("query a") /\ wire = "pending" /\ wire' = "idle"
  /\ referrals < MaxReferrals /\ referrals' = referrals + 1
  /\ Set([F EXCEPT !.host = NsName, !.glue = glue, !.answer = NoPacket, !.state = "iterate"])
  /\ UNCHANGED <<Config, todo, phase, ai, out, said, hit, sp, search, nodata>>
NotAuthoritative ==
  /\ recurse /\ In("query a") /\ wire = "pending" /\ wire' = "idle"
  /\ referrals < MaxReferrals /\ referrals' = referrals + 1
  /\ Set([F EXCEPT !.answer = Packet1(F.query, {}, "ok"), !.state = "foreach a"])
  /\ UNCHANGED <<Config, todo, phase, ai, out, said, hit, sp, search, nodata>>

\* dns_so_elapsed is looked at when something comes, and that was too late.
AnsweredLate ==
  /\ In("query a") /\ wire = "pending" /\ wire' = "idle" /\ Goto("foreach a")
  /\ UNCHANGED <<Outside, sp, search, nodata>>

\* Datagrams are lost. dill_ipaddr_remotes waits for the descriptor and for its own
\* deadline, never for dns_ai_timeout.
AnswerLost ==
  /\ In("query a") /\ wire = "pending" /\ wire' = "lost"
  /\ UNCHANGED <<Outside, stack, sp, search, nodata>>

Cname0 ==
  /\ In("cname0")
  /\ IF sp + 1 >= MaxDepth THEN Goto("finish") /\ UNCHANGED sp
     ELSE LET target == (CHOOSE r \in F.answer.recs : r.name = F.query.name /\ r.type = "CNAME").data
          IN Push([name |-> target, type |-> F.query.type], "cname1")
  /\ UNCHANGED <<Outside, search, nodata, wire>>

\* dns_res_merge.
Merged(p0, p1) == Packet1(p0.q, p0.recs \cup p1.recs, "ok")
Cname1 ==
  /\ In("cname1")
  /\ SetAndForget([F EXCEPT !.answer = Merged(F.answer, stack[sp + 1].answer), !.state = "finish"])
  /\ UNCHANGED <<Outside, sp, search, nodata, wire>>

\* For addresses options.smart changes nothing.
Finish ==
  /\ In("finish") /\ ~F.answer.none /\ Goto("done")
  /\ UNCHANGED <<Outside, sp, search, nodata, wire>>
Done1 ==
  /\ In("done") /\ sp > 0 /\ sp' = sp - 1
  /\ UNCHANGED <<Outside, stack, search, nodata, wire>>
Servfail ==
  /\ In("servfail")
  /\ Set([F EXCEPT !.answer = Packet1([name |-> Candidates[1], type |-> Qtype], {}, "servfail"), !.state = "done"])
  /\ UNCHANGED <<Outside, sp, search, nodata, wire>>

-----------------------------------------------------------------------------
\* dns_ai_nextent. DNS_AI_S_FETCH takes the answer, DNS_AI_S_FOREACH_I returns the
\* addresses at the end of the chain of aliases (dns_d_cname), one per call.
ChainEnd(p) ==
  LET next(n) == IF Matching(p, n, "CNAME") = {} THEN n
                 ELSE (CHOOSE r \in p.recs : r.name = n /\ r.type = "CNAME").data
      chain[i \in 0..MaxChain] == IF i = 0 THEN p.q.name ELSE next(chain[i - 1])
  IN chain[MaxChain]

FetchAnswer ==
  /\ In("done") /\ sp = 0 /\ ai' = [ai EXCEPT !.state = "foreach"]
  /\ UNCHANGED <<Config, todo, phase, stack, sp, search, nodata, wire, out, said, hit, referrals>>

Entries == Matching(stack[0].answer, ChainEnd(stack[0].answer), Qtype)

\* dill_ipaddr_remotes takes as many as there is room for.
NextEntryNoRoomCheck ==
  /\ phase = "looking" /\ ai.state = "foreach"
  /\ \E r \in Entries \ ai.given :
       /\ \A s \in Entries \ ai.given : r.data <= s.data
       /\ ai' = [ai EXCEPT !.given = @ \cup {r}] /\ out' = Append(out, r)
  /\ UNCHANGED <<Config, todo, phase, stack, sp, search, nodata, wire, said, hit, referrals>>
NextEntry ==
  /\ phase = "looking" /\ ai.state = "foreach"
  /\ \E r \in Entries \ ai.given :
       /\ \A s \in Entries \ ai.given : r.data <= s.data
       /\ ai' = [ai EXCEPT !.given = @ \cup {r}]
       /\ out' = IF Len(out) < Naddrs THEN Append(out, r) ELSE out
  /\ UNCHANGED <<Config, todo, phase, stack, sp, search, nodata, wire, said, hit, referrals>>

\* The end of the entries, or an error of the resolver: the next type of a PREF
\* mode, if the array is not full.
TypeEnds ==
  /\ todo' = Tail(todo) /\ hit' = FALSE /\ said' = HostsFile
  /\ IF Len(todo) > 1 /\ Len(out) < Naddrs THEN Fresh /\ UNCHANGED phase
     ELSE phase' = "returned" /\ UNCHANGED <<ai, stack, sp, search, nodata, wire>>
  /\ UNCHANGED <<Config, out, referrals>>
EntriesEnd ==
  /\ phase = "looking" /\ ai.state = "foreach" /\ Entries \subseteq ai.given /\ TypeEnds

\* The address of the name server does not fit into the packet of the hints, which
\* dns_hints_query makes as large as what is in it; an answer with a referral may
\* have room or not. DNS_ENOBUFS ends the lookup of this type.
HintsFull == In("resolv1") /\ FoundNs # {} /\ TypeEnds

\* An error of the system, as ECONNREFUSED, is neither EAGAIN nor one of the
\* resolver's: the entry, which is NULL, is looked at, unless the array is full.
SystemError ==
  /\ In("query a") /\ wire = "pending" /\ phase' = "crashed"
  /\ UNCHANGED <<Config, todo, ai, stack, sp, search, nodata, wire, out, said, hit, referrals>>

\* dill_fdin or dill_fdout fails: the deadline, or the coroutine is canceled.
WaitFails ==
  /\ In("query a") /\ wire \in {"pending", "lost"} /\ deadline
  /\ phase' = "returned" /\ out' = <<>> /\ todo' = <<>>
  /\ UNCHANGED <<Config, ai, stack, sp, search, nodata, wire, said, hit, referrals>>

Computes ==
  \/ Glue \/ Switch \/ File \/ Bind \/ Search \/ Hints \/ Iterate \/ ForeachNs \/ Resolv0Ns
  \/ Resolv1Ns \/ ForeachA \/ Cname0 \/ Cname1 \/ Finish \/ Done1 \/ Servfail
  \/ FetchAnswer \/ NextEntry \/ EntriesEnd \/ HintsFull
Arrives ==
  \/ In("query a") /\ \E recs \in Answers(F.query) : Answered(recs)
  \/ (\E g \in 0..1 : Referred(g)) \/ NotAuthoritative \/ AnsweredLate \/ SystemError
ResolverNext == Computes \/ Arrives \/ AnswerLost \/ WaitFails
ResolverSpec == ResolverInit /\ [][ResolverNext]_resVars

\* The resolver computes; something arrives unless it is lost; a deadline passes.
ResolverFairness == WF_resVars(Computes) /\ WF_resVars(Arrives) /\ WF_resVars(WaitFails)

-----------------------------------------------------------------------------
NamesFrom(names) ==
  LET step[i \in 0..MaxChain] ==
        IF i = 0 THEN names
        ELSE step[i - 1] \cup {r.data : r \in {q \in said : q.type = "CNAME" /\ q.name \in step[i - 1]}}
  IN step[MaxChain]

\* Every address that is returned is one a server or the hosts file gave for a
\* candidate name or for what that is, by aliases, another name for. Those of the
\* preferred type come first and none is of a type that is still to be looked up;
\* there are no more of them than asked for. The resolver is never in a frame
\* beyond its stack. If the question itself was answered with an address, one is
\* returned, unless the same answer says that the name is an alias of another:
\* dns_d_cname follows the alias, and the address of the name asked for is lost.
LookupSound ==
  /\ phase = "looking" =>
       \A i \in DOMAIN out :
         /\ out[i].type = Qtype => out[i] \in said /\ out[i].name \in NamesFrom(Range1(Candidates))
         /\ out[i].type \notin Range1(Tail(todo))
         /\ \A j \in i..Len(out) : out[i].type = Qtype => out[j].type = Qtype
  /\ \A i, j \in DOMAIN out : out[i] = out[j] => i = j
  /\ Len(out) <= Naddrs /\ sp \in 0..(MaxDepth - 1)
  /\ phase = "looking" /\ ai.state = "foreach" /\ hit =>
       Entries # {} \/ ChainEnd(stack[0].answer) # stack[0].answer.q.name

\* A lookup that does not recurse, once begun, ends whatever servers say, in a
\* return or, after an error of the system, in a crash: with loops of aliases, with
\* no IPv4 name server, and with empty answers for every candidate; unless an answer
\* is lost and there is no deadline. Recursive lookups are left out, since servers
\* may refer the resolver in circles.
LookupEnds ==
  F.state = "switch" ~> phase # "looking" \/ recurse \/ (wire = "lost" /\ ~deadline)

\* dns.c:6651: "We got here because we never got an answer on the wire. All queries
\* timed-out and we reached maximum attempts count."
LostIsRetried == wire = "lost" ~> wire # "lost" \/ phase # "looking"

\* man/ipaddr_remotes.3: "In case of error it returns -1 and sets errno".
ErrorsReported == phase # "crashed"
=============================================================================
