--------------------------------- MODULE Http ---------------------------------
(***************************************************************************)
(* The lines of HTTP (http.c): what libdill writes and how it reads the    *)
(* lines of any peer. A line is a sequence of characters; Space and Colon  *)
(* are the ones the code looks for. How lines become messages and how the  *)
(* exchange ends is SUFFIX and TERM underneath (Framing, Closing).         *)
(***************************************************************************)
EXTENDS Integers, Sequences, FiniteSetsExt, SequencesExt

CONSTANTS
  Space, Colon,
  Protocol,    \* "HTTP/1.1", as a sequence of characters
  Digits,      \* the digits
  StatusLen,   \* digits of a status (3)
  Strings,     \* what programs pass as command, resource, name, value, reason
  Statuses,    \* and as status, already as digits
  ForeignLines,\* what other implementations send
  NameMax,     \* capacity of the buffers for names, without the zero
  RxMax        \* that of rxbuf (1023)

ASSUME HttpAssumption ==
  /\ Space # Colon /\ Space \notin Range(Protocol) /\ Space \notin Digits
  /\ StatusLen \in Nat \ {0} /\ NameMax \in Nat /\ RxMax \in Nat

VARIABLES
  asked,    \* the arguments of the function that sent the line, or Foreign
  line,     \* the line on its way
  parsed,   \* what the receiving function returned: [ok, parts]
  crashed   \* the process ended

httpVars == <<asked, line, parsed, crashed>>

Foreign == [kind |-> "foreign", args |-> <<>>]
NotParsed == [kind |-> "none", ok |-> FALSE, parts |-> <<>>]
Failed(kind) == [kind |-> kind, ok |-> FALSE, parts |-> <<>>]
Overrun == [kind |-> "overrun", ok |-> FALSE, parts |-> <<>>]
Parts(kind, parts) == [kind |-> kind, ok |-> TRUE, parts |-> parts]

\* A socket that is idle, or one on which something foreign has arrived.
HttpInit ==
  /\ asked = Foreign /\ line \in {<<>>} \cup ForeignLines
  /\ parsed = NotParsed /\ crashed = FALSE

\* dill_lstrip, dill_rstrip.
Stripped(s) ==
  LET solid == {i \in DOMAIN s : s[i] # Space}
  IN IF solid = {} THEN <<>> ELSE SubSeq(s, Min(solid), Max(solid))

Sends(kind, args, text) ==
  /\ asked = Foreign /\ line = <<>> /\ parsed = NotParsed
  /\ asked' = [kind |-> kind, args |-> args] /\ line' = text
  /\ UNCHANGED <<parsed, crashed>>

\* dill_http_sendrequest: no spaces inside.
SendRequest(command, resource) ==
  /\ Space \notin Range(command) \cup Range(resource)
  /\ Sends("request", <<command, resource>>,
           command \o <<Space>> \o resource \o <<Space>> \o Protocol)

\* dill_http_sendstatus.
SendStatus(status, reason) ==
  Sends("status", <<status, reason>>, Protocol \o <<Space>> \o status \o <<Space>> \o reason)

\* dill_http_sendfield: an empty value is refused, one of spaces only fails an
\* assertion.
SendField(name, value) ==
  /\ asked = Foreign /\ line = <<>> /\ Range(name) \cap {Space, Colon} = {} /\ value # <<>>
  /\ IF Stripped(value) # <<>>
     THEN Sends("field", <<name, Stripped(value)>>, name \o <<Colon, Space>> \o Stripped(value))
     ELSE crashed' = TRUE /\ UNCHANGED <<asked, line, parsed>>

-----------------------------------------------------------------------------
\* Reading goes from place to place of the line; Len + 1 is the zero behind it.
Skip(p) == Min({i \in p..(Len(line) + 1) : i = Len(line) + 1 \/ line[i] # Space})
WordEnd(p, stops) == Min({i \in p..(Len(line) + 1) : i = Len(line) + 1 \/ line[i] \in stops})
Behind == Len(line) + 1
Text(p, q) == SubSeq(line, p, q - 1)

\* The length has to differ, and the beginning too, for the protocol to be refused.
ProtocolOk(p, q) ==
  q - p = Len(Protocol) \/ IsPrefix(Protocol, Text(p, Behind))

\* dill_http_recvrequest.
RecvRequest ==
  LET c == Skip(1)
      ce == WordEnd(c, {Space})
      r == Skip(ce)
      re == WordEnd(r, {Space})
      p == Skip(re)
      pe == WordEnd(p, {Space})
  IN IF \/ ce = Behind \/ ce - c > NameMax \/ re = Behind \/ re - r > NameMax
        \/ ~ProtocolOk(p, pe) \/ Skip(pe) # Behind
     THEN Failed("request") ELSE Parts("request", <<Text(c, ce), Text(r, re)>>)

\* dill_http_recvstatus.
RecvStatus ==
  LET p == Skip(1)
      pe == WordEnd(p, {Space})
      s == Skip(pe)
      se == WordEnd(s, {Space})
      r == Skip(se)
  IN IF \/ pe = Behind \/ ~ProtocolOk(p, pe) \/ se = Behind \/ se - s # StatusLen
        \/ ~(Range(Text(s, se)) \subseteq Digits) \/ Behind - r > NameMax
     THEN Failed("status") ELSE Parts("status", <<Text(s, se), Text(r, Behind)>>)

\* dill_http_recvfield: dill_rstrip is called with the end of the line, where it
\* finds nothing to strip.
RecvFieldKeepsColon ==
  LET n == Skip(1)
      ne == WordEnd(n, {Space})
      c == Skip(ne)
      v == Skip(c)
  IN IF ne = Behind \/ ne - n > NameMax \/ Behind - v > NameMax
     THEN Failed("field") ELSE Parts("field", <<Text(n, ne), Text(v, Behind)>>)
RecvField ==
  LET n == Skip(1)
      ne == WordEnd(n, {Space, Colon})
      c == Skip(ne)
      v == Skip(c + 1)
  IN IF ne = Behind \/ ne - n > NameMax \/ c = Behind THEN Failed("field")
     ELSE IF line[c] # Colon \/ Behind - v > NameMax THEN Failed("field")
     ELSE Parts("field", <<Text(n, ne), Text(v, Behind)>>)

\* SUFFIX reports the size of the line even if only a part of it was stored (see
\* Framing!SuffixReceive), and the zero is written there: behind the object, if the
\* line is too long. What is parsed then, if the process survives, is undefined.
Recv ==
  /\ ~crashed /\ line # <<>> /\ parsed = NotParsed /\ Len(line) <= RxMax
  /\ parsed' \in {RecvRequest, RecvStatus, RecvField}
  /\ UNCHANGED <<asked, line, crashed>>

RecvOverruns ==
  /\ ~crashed /\ parsed = NotParsed /\ Len(line) > RxMax
  /\ parsed' = Overrun /\ crashed' \in BOOLEAN
  /\ UNCHANGED <<asked, line>>

HttpNext ==
  \/ \E s, t \in Strings : SendRequest(s, t) \/ SendField(s, t)
  \/ \E s \in Statuses, t \in Strings : SendStatus(s, t)
  \/ Recv \/ RecvOverruns

-----------------------------------------------------------------------------
Solid(s) == SelectSeq(s, LAMBDA c : c # Space)

\* What one side passes is what the other side gets, whatever characters it is
\* made of, if it fits into the buffers it is copied to and the line into rxbuf; and
\* of a foreign line that fits only a decomposition is accepted that gives the line
\* back, spaces aside (the scanning loops of http.c).
HttpExact ==
  /\ parsed.kind = asked.kind /\ asked.args[1] # <<>> /\ asked.args[2] # <<>>
       => /\ (\A i \in 1..2 : Len(asked.args[i]) <= NameMax) => parsed.ok
          /\ (\E i \in 1..2 : Len(Stripped(asked.args[i])) > NameMax) => ~parsed.ok
          /\ parsed.ok => /\ parsed.parts[1] = asked.args[1]
                          /\ Stripped(parsed.parts[2]) = Stripped(asked.args[2])
  /\ parsed.ok =>
       LET a == parsed.parts[1]
           b == Solid(parsed.parts[2])
           whole == Solid(line)
       IN CASE parsed.kind = "request" -> IsPrefix(a \o b, whole) /\ Space \notin Range(a)
            [] parsed.kind = "status" -> IsSuffix(a \o b, whole) /\ Range(a) \subseteq Digits
            [] parsed.kind = "field" -> a \o <<Colon>> \o b = whole /\ Colon \notin Range(a)
=============================================================================
