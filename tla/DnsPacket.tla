------------------------------- MODULE DnsPacket -------------------------------
(***************************************************************************)
(* Packets of the resolver (dns_p_, dns_d_, dns_rr_ and dns_any_ in        *)
(* dns.c): records are pushed into a buffer, their names compressed by a   *)
(* dictionary of earlier ones, and read back by section. A packet is a     *)
(* sequence of cells, each of them a number that takes several bytes in    *)
(* the code (a length, a pointer, a type with its class, an rdlen), or a   *)
(* character. The header, 12 bytes in the code, is left out: the first     *)
(* record is at 1.                                                         *)
(***************************************************************************)
EXTENDS Integers, Sequences, FiniteSets

CONSTANTS
  Sizes,      \* sizes of buffers
  DictSize,   \* DNS_P_DICTSIZE
  MaxLabel,   \* DNS_D_MAXLABEL
  MaxChunk,   \* length of a string of a TXT record (255)
  Names,      \* the bound on the labels of a name, and of pointers in it
  Records,    \* records that are pushed: section, name, type, rdata
  MaxPushes   \* pushes into each of the packets

ASSUME PacketAssumption ==
  /\ Sizes \subseteq Nat /\ DictSize \in Nat /\ MaxLabel \in Nat \ {0} /\ MaxChunk \in Nat \ {0}
  /\ Names \in Nat /\ MaxPushes \in [1..2 -> Nat]
  /\ \A r \in Records : \A i \in DOMAIN r.name : Len(r.name[i]) \in 1..MaxLabel

VARIABLES
  pk,      \* two packets
  log,     \* history: the records pushed into each without an error
  pushes,  \* history: calls of dns_p_push for each
  merged   \* the result of dns_res_merge

pkVars == <<pk, log, pushes, merged>>

Sections == 1..4          \* DNS_S_QD, DNS_S_AN, DNS_S_NS, DNS_S_AR
Chars == 100              \* where characters start: a = 100, b = 101; capitals are 20 more
Lower(c) == IF c >= Chars + 20 THEN c - 20 ELSE c
LowerAll(s) == [i \in DOMAIN s |-> Lower(s[i])]
Pointers == 1000          \* where pointers start

\* dns_p_init.
Unstudied == [s \in Sections |-> [base |-> 0, end |-> 0]]
NewPacket(size) ==
  [size |-> size, data |-> <<>>, dict |-> <<>>, count |-> [s \in Sections |-> 0],
   memo |-> Unstudied, err |-> "ok"]
End(p) == Len(p.data) + 1
Room(p) == p.size - Len(p.data)
Fails(p, err) == [p EXCEPT !.err = err]

-----------------------------------------------------------------------------
\* dns_l_expand: the label at src, behind pointers, and where the next one is. A
\* label that is not there has no characters, as the root.
Deref(data, src) ==
  LET at[i \in 0..Names] ==
        IF i = 0 THEN src
        ELSE LET p == at[i - 1]
             IN IF p \in DOMAIN data /\ data[p] >= Pointers THEN data[p] - Pointers ELSE p
  IN at[Names]
LabelAt(data, at) ==
  IF at \in DOMAIN data /\ data[at] <= MaxLabel /\ at + data[at] <= Len(data)
  THEN [label |-> SubSeq(data, at + 1, at + data[at]), next |-> at + data[at] + 1]
  ELSE [label |-> <<>>, next |-> Len(data) + 1]
LExpand(data, src) == LabelAt(data, Deref(data, src))

\* dns_d_expand: the labels from src to the root.
DExpand(data, src) ==
  LET step[i \in 1..(Names + 1)] ==
        IF i = 1 THEN LExpand(data, src)
        ELSE LET s == step[i - 1] IN IF s.label = <<>> THEN s ELSE LExpand(data, s.next)
  IN SelectSeq([i \in DOMAIN step |-> step[i].label], LAMBDA l : l # <<>>)

\* The offsets of the labels from src, those of dns_d_comp's loop over b.p.
Offsets(data, src) ==
  LET n == Len(DExpand(data, src))
      at[i \in 1..n] == IF i = 1 THEN src ELSE LExpand(data, at[i - 1]).next
  IN [i \in 1..n |-> at[i]]

\* dns_d_skip.
DSkip(data, src) ==
  LET at[i \in 0..(Names + 1)] ==   \* a result is negative
        IF i = 0 THEN src
        ELSE LET p == at[i - 1]
             IN IF p < 0 THEN p
                ELSE IF p \notin DOMAIN data THEN -(Len(data) + 1)
                ELSE IF data[p] >= Pointers \/ data[p] = 0 THEN -(p + 1)
                ELSE IF data[p] <= MaxLabel /\ p + data[p] <= Len(data) THEN p + data[p] + 1
                ELSE -(Len(data) + 1)
  IN IF at[Names + 1] < 0 THEN -at[Names + 1] ELSE Len(data) + 1

-----------------------------------------------------------------------------
\* A name without compression. The length of a label is masked (0x3f): no label of
\* the records is longer than MaxLabel, where the mask begins to bite.
RECURSIVE Encode(_)
Encode(name) ==
  IF name = <<>> THEN <<0>> ELSE <<Len(Head(name))>> \o Head(name) \o Encode(Tail(name))

\* The labels a and b have in common at the front; strcasecmp.
Common(a, b) ==
  LET same == {n \in 0..Len(a) : n <= Len(b) /\ \A i \in 1..n : LowerAll(a[i]) = LowerAll(b[i])}
  IN CHOOSE n \in same : \A m \in same : m <= n

\* dns_d_comp looks for the labels rest behind label among the offsets bs, one after
\* the other. Where a comparison stops, label is the one it stopped at, and with that
\* one the next comparison starts.
RECURSIVE Match(_, _, _, _)
Match(data, bs, label, rest) ==
  IF bs = <<>> THEN [found |-> FALSE, label |-> label]
  ELSE LET a == <<label>> \o rest
           b == DExpand(data, Head(bs))
           n == Common(a, b)
       IN IF label = <<>> THEN [found |-> FALSE, label |-> label]
          ELSE IF n = Len(a) /\ n = Len(b) THEN [found |-> TRUE, at |-> Head(bs)]
          ELSE Match(data, Tail(bs), IF n < Len(a) THEN a[n + 1] ELSE <<>>, rest)

RECURSIVE Flatten(_)
Flatten(ss) == IF ss = <<>> THEN <<>> ELSE Head(ss) \o Flatten(Tail(ss))

\* dns_d_comp: the longest suffix that matches becomes a pointer.
RECURSIVE Compressed(_, _)
CompressedNoRoot(p, name) ==
  LET bs == Flatten([i \in DOMAIN p.dict |-> Offsets(p.data, p.dict[i])])
      m == Match(p.data, bs, Head(name), <<>>)
  IN IF name = <<>> THEN <<0>>
     ELSE IF m.found THEN <<Pointers + m.at>>
     ELSE <<Len(Head(name))>> \o Head(name) \o Compressed(p, Tail(name))
Compressed(p, name) ==
  LET bs == Flatten([i \in DOMAIN p.dict |-> Offsets(p.data, p.dict[i])])
      m == Match(p.data, bs, Head(name), Tail(name))
  IN IF name = <<>> THEN <<0>>
     ELSE IF m.found THEN <<Pointers + m.at>>
     ELSE <<Len(Head(name))>> \o Head(name) \o Compressed(p, Tail(name))

DComp(p, name) == IF Len(Encode(name)) < Room(p) THEN Compressed(p, name) ELSE Encode(name)

\* dns_p_dictadd: a name that ends in one of the dictionary takes its place.
DictAdd(p, dn) ==
  LET last == p.data[Len(p.data)]
      same == {i \in DOMAIN p.dict : dn < Len(p.data) /\ last = Pointers + p.dict[i]}
  IN IF same # {}
     THEN [p EXCEPT !.dict[CHOOSE i \in same : \A j \in same : i <= j] = dn]
     ELSE IF Len(p.dict) < DictSize THEN [p EXCEPT !.dict = Append(@, dn)] ELSE p

\* dns_d_push.
Cells(p, cells) ==
  IF Len(cells) > Room(p) THEN Fails(p, "nobufs") ELSE [p EXCEPT !.data = @ \o cells]
Named(p, dn) == IF p.err = "nobufs" THEN p ELSE DictAdd(p, dn)
DPush(p, name) == Named(Cells(p, DComp(p, name)), End(p))

-----------------------------------------------------------------------------
\* What is behind the length of rdata, by type: dns_a_push, dns_aaaa_push, ...;
\* dns_sshfp_push knows one kind of fingerprints only.
DNS_SSHFP_SHA1 == 1
OneCell == {"word", "time", "sha1"}
ALayout == <<"word">>
AaaaLayout == <<"word", "word", "word", "word">>
MxLayout == <<"word", "name">>
NsLayout == <<"name">>
CnameLayout == NsLayout
PtrLayout == NsLayout
SoaLayout == <<"name", "name", "time">>
SrvLayout == <<"word", "target">>
SshfpLayout == <<"word", "sha1", "word">>
TxtLayout == <<"text">>
Layout(type) ==
  CASE type = "A" -> ALayout [] type = "AAAA" -> AaaaLayout [] type = "MX" -> MxLayout
    [] type = "NS" -> NsLayout [] type = "CNAME" -> CnameLayout [] type = "PTR" -> PtrLayout
    [] type = "SOA" -> SoaLayout [] type = "SRV" -> SrvLayout [] type = "SSHFP" -> SshfpLayout
    [] type = "TXT" -> TxtLayout
TypeCell(type) == CASE type = "A" -> 1 [] type = "NS" -> 2 [] type = "CNAME" -> 5 [] type = "SOA" -> 6
                    [] type = "PTR" -> 12 [] type = "MX" -> 15 [] type = "TXT" -> 16
                    [] type = "AAAA" -> 28 [] type = "SRV" -> 33 [] type = "SSHFP" -> 44
TypeOf(cell) == CHOOSE t \in {"A", "NS", "CNAME", "SOA", "PTR", "MX", "TXT", "AAAA", "SRV", "SSHFP"} : TypeCell(t) = cell

\* dns_txt_push: strings of at most MaxChunk characters.
RECURSIVE Chunks(_)
Chunks(text) ==
  IF text = <<>> THEN <<>>
  ELSE LET n == IF Len(text) < MaxChunk THEN Len(text) ELSE MaxChunk
       IN <<n>> \o SubSeq(text, 1, n) \o Chunks(SubSeq(text, n + 1, Len(text)))

\* Words and texts are written as names of one label, so that fields compare.
Field(p, kind, v) ==
  CASE kind = "word" -> Cells(p, v[1])
    [] kind = "time" -> IF Room(p) <= 1 THEN Fails(p, "nobufs") ELSE Cells(p, v[1])
    [] kind = "sha1" -> IF Room(p) > 0 /\ v # <<<<DNS_SSHFP_SHA1>>>> THEN Fails(p, "illegal") ELSE Cells(p, v[1])
    [] kind = "name" -> DPush(p, v)
    [] kind = "target" -> Cells(p, DComp(p, v))
    [] kind = "text" -> Cells(p, Chunks(v[1]))

\* dns_any_push: the length is known when the fields are there.
RECURSIVE Fields(_, _, _)
Fields(p, layout, rd) ==
  IF rd = <<>> \/ p.err # "ok" THEN p
  ELSE Fields(Field(p, Head(layout), Head(rd)), Tail(layout), Tail(rd))
Measured(p, at) == IF p.err # "ok" THEN p ELSE [p EXCEPT !.data[at] = Len(p.data) - at]
AnyPush(p, type, rd) == Measured(Fields(Cells(p, <<0>>), Layout(type), rd), End(p))

-----------------------------------------------------------------------------
\* dns_p_qend.
QEnd(p) ==
  LET at[i \in 0..p.count[1]] ==
        IF i = 0 THEN 1
        ELSE LET a == at[i - 1]
                 q == DSkip(p.data, a)
             IN IF a >= End(p) THEN a ELSE IF q = End(p) THEN End(p) ELSE q + 1
  IN at[p.count[1]]

\* dns_rr_skip: what is too short reaches to the end.
RrEnd(p, type) ==
  LET rd == type + 2   \* behind the type and the length
  IN IF type >= End(p) THEN End(p)
     ELSE IF type + 1 <= QEnd(p) THEN type + 1
     ELSE IF rd > End(p) \/ rd + p.data[type + 1] > End(p) THEN End(p)
     ELSE rd + p.data[type + 1]
RrSkip(p, src) == RrEnd(p, DSkip(p.data, src))

\* dns_p_study: the bounds of the sections, by their counts.
Study(p) ==
  LET skip(base, n) ==
        LET at[i \in 0..n] == IF i = 0 THEN base ELSE IF at[i - 1] < End(p) THEN RrSkip(p, at[i - 1]) ELSE at[i - 1]
        IN at[n]
      end[s \in 0..4] == IF s = 0 THEN 1 ELSE skip(end[s - 1], p.count[s])
  IN [p EXCEPT !.memo = [s \in Sections |-> [base |-> end[s - 1], end |-> end[s]]]]

\* The end of dns_p_push: the counts, and what is known of the sections.
Counted(p, s) ==
  LET q == IF p.memo[s].base = 0 THEN Study(p) ELSE p
  IN [q EXCEPT !.count[s] = @ + 1,
        !.memo = [t \in Sections |->
                    IF t < s THEN @[t] ELSE IF t = s THEN [@[t] EXCEPT !.end = End(p)]
                    ELSE [base |-> End(p), end |-> End(p)]]]

\* dns_p_push. On an error what was written is dropped; the dictionary stays.
Typed(p, type) == IF p.err = "ok" THEN Cells(p, <<TypeCell(type)>>) ELSE p
Filled(p, r) == IF p.err # "ok" \/ r.section = 1 THEN p ELSE AnyPush(p, r.type, r.rd)
Settled(p, s, old) ==
  IF p.err = "ok" /\ (\A t \in (s + 1)..4 : p.count[t] = 0) THEN Counted(p, s)
  ELSE [p EXCEPT !.data = old, !.err = IF @ = "ok" THEN "order" ELSE @]
Pushed(p, r) == Settled(Filled(Typed(DPush(p, r.name), r.type), r), r.section, p.data)

-----------------------------------------------------------------------------
\* dns_rr_section: by the bounds, if they are known, else by the counts.
Around(memo, src) == {s \in Sections : memo[s].base <= src /\ src < memo[s].end}
FirstOf(known) == CHOOSE s \in known : \A t \in known : s <= t
RrSection(p, src) ==
  IF Around(p.memo, src) # {} THEN FirstOf(Around(p.memo, src)) ELSE FirstOf(Around(Study(p).memo, src))

\* dns_any_parse.
RECURSIVE Text(_, _, _)
Text(data, at, end) ==
  IF at >= end THEN <<>> ELSE SubSeq(data, at + 1, at + data[at]) \o Text(data, at + data[at] + 1, end)
AnyParse(data, type, rd, end) ==
  LET layout == Layout(type)
      at[i \in 1..Len(layout)] ==
        IF i = 1 THEN rd
        ELSE IF layout[i - 1] \in OneCell THEN at[i - 1] + 1 ELSE DSkip(data, at[i - 1])
  IN [i \in DOMAIN layout |->
        CASE layout[i] \in OneCell -> <<<<data[at[i]]>>>>
          [] layout[i] \in {"name", "target"} -> DExpand(data, at[i])
          [] layout[i] = "text" -> <<Text(data, at[i], end)>>]

\* dns_rr_parse, with the section and the rdata.
Record(p, s, name, at, end) ==
  LET type == TypeOf(p.data[at])
  IN [section |-> s, name |-> name, type |-> type,
      rd |-> IF s = 1 THEN <<>> ELSE AnyParse(p.data, type, at + 2, end)]
RrParse(p, src) ==
  Record(p, RrSection(p, src), DExpand(p.data, src), DSkip(p.data, src), RrSkip(p, src))

\* dns_rr_foreach in the order of the packet, over a set of sections: dns_rr_i_start
\* begins at the first of them whose bounds are known.
IStart(p, ss) ==
  LET known == {s \in ss : p.memo[s].base > 0}
  IN IF known = {} THEN 1 ELSE p.memo[FirstOf(known)].base
RECURSIVE From(_, _)
From(p, src) == IF src >= End(p) THEN <<>> ELSE <<RrParse(p, src)>> \o From(p, RrSkip(p, src))
Foreach(p, ss) == SelectSeq(From(p, IStart(p, ss)), LAMBDA r : r.section \in ss)

\* dns_rr_cmp and dns_any_cmp; dns_txt_cmp never finds two alike.
AnyCase(r) ==
  [r EXCEPT !.name = [i \in DOMAIN @ |-> LowerAll(@[i])],
            !.rd = [i \in DOMAIN @ |-> IF Layout(r.type)[i] \in {"name", "target"}
                                       THEN [j \in DOMAIN @[i] |-> LowerAll(@[i][j])] ELSE @[i]]]
RrSame(r, t) == r.type # "TXT" /\ [AnyCase(r) EXCEPT !.section = 0] = [AnyCase(t) EXCEPT !.section = 0]

\* dns_res_merge: the question of the first, and the records of both, once each. If
\* they do not fit it starts again with more room.
Present(r, rs) == r.section # 1 /\ \E i \in DOMAIN rs : RrSame(r, rs[i])
RECURSIVE CopyAll(_, _)
CopyAll(p, rs) ==
  IF rs = <<>> \/ p.err # "ok" THEN p
  ELSE CopyAll(IF Present(Head(rs), Foreach(p, 2..4)) THEN p ELSE Pushed(p, Head(rs)), Tail(rs))
Both(p, q) ==
  LET part == <<<<p, 1>>, <<p, 2>>, <<q, 2>>, <<p, 3>>, <<q, 3>>, <<p, 4>>, <<q, 4>>>>
  IN Flatten([k \in DOMAIN part |-> Foreach(part[k][1], {part[k][2]})])
Retried(m, rs) == IF m.err = "nobufs" THEN CopyAll(NewPacket(65535), rs) ELSE m
MergeAll(least, rs) == Retried(CopyAll(NewPacket(least), rs), rs)
Merge(p, q) == MergeAll(Len(p.data) + Len(q.data), Both(p, q))

-----------------------------------------------------------------------------
PacketInit ==
  /\ \E size \in Sizes : pk = <<NewPacket(size), NewPacket(size)>>
  /\ log = <<<<>>, <<>>>> /\ pushes = <<0, 0>> /\ merged = NewPacket(0)

Becomes(i, r, p) ==
  /\ pk' = [pk EXCEPT ![i] = p]
  /\ log' = [log EXCEPT ![i] = IF p.err = "ok" THEN Append(@, r) ELSE @]
Push1(i, r) ==
  /\ pushes[i] < MaxPushes[i] /\ merged.size = 0 /\ (i = 1 => pushes[2] = 0)
  /\ Becomes(i, r, Pushed([pk[i] EXCEPT !.err = "ok"], r))
  /\ pushes' = [pushes EXCEPT ![i] = @ + 1] /\ UNCHANGED merged

\* A packet that was received, or copied (dns_p_copy): its dictionary and its bounds
\* are not known, unless dns_p_study finds them out.
Copy(i) ==
  /\ pk[i].dict # <<>> /\ merged.size = 0 /\ (i = 1 => pushes[2] = 0)
  /\ LET p == [pk[i] EXCEPT !.dict = <<>>, !.memo = Unstudied]
     IN pk' = [pk EXCEPT ![i] = p] \/ pk' = [pk EXCEPT ![i] = Study(p)]
  /\ UNCHANGED <<log, pushes, merged>>

MergeBoth ==
  /\ merged.size = 0 /\ log[1] # <<>> /\ log[2] # <<>>
  /\ merged' = Merge(pk[1], pk[2]) /\ UNCHANGED <<pk, log, pushes>>

PacketNext == (\E i \in 1..2 : (\E r \in Records : Push1(i, r)) \/ Copy(i)) \/ MergeBoth

-----------------------------------------------------------------------------
\* The names of records, and their suffixes.
NamesOf(rs) ==
  UNION {LET r == AnyCase(rs[i])
         IN {r.name} \cup {r.rd[j] : j \in {j \in DOMAIN r.rd : Layout(r.type)[j] \in {"name", "target"}}}
         : i \in DOMAIN rs}
Suffixes1(rs) == UNION {{SubSeq(n, k, Len(n)) : k \in 1..Len(n)} : n \in NamesOf(rs)}

\* The exception: two names that differ in their first label only, which for one of
\* them is a later label of the other; there dns_d_comp may take one for the other.
Confusable(rs) ==
  \E s, t \in Suffixes1(rs) :
    Len(s) = Len(t) /\ Tail(s) = Tail(t) /\ s[1] # t[1] /\ \E j \in 2..Len(s) : s[j] = t[1]

SameRecords(all, rs) ==
  /\ Len(all) = Len(rs)
  /\ Confusable(rs) \/ \A i \in DOMAIN all : AnyCase(all[i]) = AnyCase(rs[i])
ReadsAs(p, rs) ==
  /\ \A s \in Sections : p.memo[s].base > 0 => p.memo[s] = Study(p).memo[s]
  /\ SameRecords(Foreach(p, Sections), rs)
  /\ \A s \in Sections : Len(Foreach(p, {s})) = Cardinality({i \in DOMAIN rs : rs[i].section = s})

\* The records of rs, each of them once, in any order.
EachOnce(got, rs) ==
  /\ {AnyCase(got[i]) : i \in DOMAIN got} =
       {AnyCase(rs[i]) : i \in {i \in DOMAIN rs : \A j \in 1..(i - 1) : ~RrSame(rs[i], rs[j])}}
  /\ \A i, j \in DOMAIN got : RrSame(got[i], got[j]) => i = j
BySection(rs) ==
  Flatten([s \in 1..3 |-> SelectSeq(rs, LAMBDA r : r.section = s + 1)])

\* Whatever was pushed before, and failed, every record reads back as it was pushed:
\* in its section, with its name and data, and the packets merged hold the records
\* of both, once each. The bounds that are remembered are those the counts give.
PacketExact ==
  /\ \A i \in 1..2 : ReadsAs(pk[i], log[i])
  /\ merged.size > 0 /\ ~Confusable(log[1] \o log[2]) =>
       merged.err = "ok" /\ EachOnce(Foreach(merged, 2..4), BySection(log[1] \o log[2]))
=============================================================================
