------------------------------- MODULE DnsOrder -------------------------------
(***************************************************************************)
(* The orders the resolver takes things in (dns.c): the numbers of queries *)
(* (dns_k_permutor), the shuffling of records and servers                  *)
(* (dns_k_shuffle16), the name servers (dns_hints_grep) and the names a     *)
(* relative name stands for (dns_resconf_search). Words are shorter than   *)
(* in the code; the pseudo-random functions are arbitrary.                 *)
(***************************************************************************)
EXTENDS Integers, Sequences, FiniteSets, Bitwise

CONSTANTS
  Bits,        \* of half a word (8 in the code)
  Rounds,      \* DNS_K_PERMUTOR_ROUNDS
  MaxHints,    \* lengthof(soa->addrs)
  Suffixes     \* the search lists of resolv.conf

ASSUME OrderAssumption ==
  /\ Bits \in Nat \ {0} /\ Rounds \in Nat \ {0, 1} /\ MaxHints \in Nat \ {0}

VARIABLE order  \* the case that is examined

orderVars == <<order>>

Half == 0..(2^Bits - 1)
Word == 0..(2^(2 * Bits) - 1)
Hi(n) == n \div 2^Bits
Lo(n) == n % 2^Bits
Join(hi, lo) == hi * 2^Bits + lo

-----------------------------------------------------------------------------
\* dns_k_permutor_F: a function of the round and half the word.
RoundF(f, mod, k, x) == f[(x + k) % 2^Bits] % mod

\* dns_k_permutor_E and dns_k_permutor_D, on halves less than mod.
PermutorEOverwrites(f, mod, n) ==
  LET lr[i \in 0..(Rounds - 1)] ==
        IF i = 0 THEN <<n \div mod, n % mod>>
        ELSE LET p == lr[i - 1] IN <<p[2], p[2] ^^ RoundF(f, mod, i - 1, p[2])>>
      last == lr[Rounds - 1]
  IN last[1] * mod + last[2]
PermutorE(f, mod, n) ==
  LET lr[i \in 0..(Rounds - 1)] ==
        IF i = 0 THEN <<n \div mod, n % mod>>
        ELSE LET p == lr[i - 1] IN <<p[2], p[1] ^^ RoundF(f, mod, i - 1, p[2])>>
      last == lr[Rounds - 1]
  IN last[1] * mod + last[2]
PermutorD(f, mod, n) ==
  LET lr[i \in 0..(Rounds - 1)] ==   \* i rounds undone
        IF i = 0 THEN <<n \div mod, n % mod>>
        ELSE LET p == lr[i - 1] IN <<p[2] ^^ RoundF(f, mod, Rounds - 1 - i, p[1]), p[1]>>
      last == lr[Rounds - 1]
  IN last[1] * mod + last[2]

\* dns_k_permutor_init: the narrowest word of even width that holds the range.
Length(o) == o.high - o.low + 1
Mod(o) == 2^(CHOOSE w \in 0..Bits : 4^w >= Length(o) /\ \A v \in 0..(w - 1) : 4^v < Length(o))

\* The results of dns_k_permutor_step while stepi runs through all words once.
Steps(o) ==
  LET mod == Mod(o)
      inside == SelectSeq([i \in 1..(mod * mod) |-> PermutorE(o.f, mod, i - 1)],
                          LAMBDA n : n < Length(o))
  IN [i \in DOMAIN inside |-> inside[i] + (o.high + 1 - Length(o))]

\* dns_k_shuffle16: four rounds with the parts of the seed.
Shuffle(sbox, n, seed) ==
  LET ab[i \in 0..4] ==
        IF i = 0 THEN <<Lo(n), Hi(n)>>
        ELSE LET p == ab[i - 1]
                 a == sbox[p[1] ^^ seed[i]] ^^ p[2]
             IN <<a, sbox[p[2]] ^^ a>>
      last == ab[4]
  IN Join(last[1], last[2])

-----------------------------------------------------------------------------
\* dns_hints_insert: once the array is full its first element is replaced.
Insert1(soa, server, priority) ==
  LET entry == [server |-> server, priority |-> priority]
  IN IF Len(soa) < MaxHints THEN Append(soa, entry) ELSE [soa EXCEPT ![1] = entry]

\* dns_hints_insert_resconf: servers 1..n of resolv.conf.
Soa(o) ==
  LET soa[n \in 0..o.servers] ==
        IF n = 0 THEN <<>> ELSE Insert1(soa[n - 1], n, IF o.rotate THEN 1 ELSE n)
  IN soa[o.servers]

\* dns_hints_i_cmp.
Before(o, soa, a, b) ==
  \/ soa[a].priority < soa[b].priority
  \/ /\ soa[a].priority = soa[b].priority
     /\ Shuffle(o.sbox, a - 1, o.seed) < Shuffle(o.sbox, b - 1, o.seed)

\* dns_hints_i_start, dns_hints_i_skip; Len(soa) + 1 is the end.
Least(o, soa, S) ==
  IF S = {} THEN Len(soa) + 1 ELSE CHOOSE p \in S : \A q \in S : q = p \/ Before(o, soa, p, q)
Start(o, soa) == Least(o, soa, DOMAIN soa)
SkipByPriority(o, soa, p) == Least(o, soa, {q \in DOMAIN soa : soa[p].priority < soa[q].priority})
Skip(o, soa, p) == Least(o, soa, {q \in DOMAIN soa : Before(o, soa, p, q)})

\* dns_hints_grep, until nothing is left.
Grepped(o) ==
  LET soa == Soa(o)
      next[i \in 1..(MaxHints + 1)] ==
        IF i = 1 THEN Start(o, soa)
        ELSE IF next[i - 1] > Len(soa) THEN next[i - 1] ELSE Skip(o, soa, next[i - 1])
  IN [i \in 1..Cardinality({j \in DOMAIN next : next[j] <= Len(soa)}) |-> soa[next[i]]]

-----------------------------------------------------------------------------
\* dns_resconf_search: a step makes the next name of the state <<case, srchi>>. The
\* name itself is "", one with a suffix is the suffix; "none" is length 0.
SearchStep(o, st) ==
  LET enough == o.dots >= o.ndots
      suffix == st[2] <= Len(o.search)
  IN CASE st[1] = 0 /\ enough -> <<"", <<1, st[2]>>>>
       [] st[1] \in {0, 1} /\ ~(st[1] = 0 /\ enough) /\ suffix -> <<o.search[st[2]], <<1, st[2] + 1>>>>
       [] st[1] <= 2 /\ ~(st[1] = 0 /\ enough) /\ (st[1] = 2 \/ ~suffix) /\ ~enough -> <<"", <<3, st[2]>>>>
       [] OTHER -> <<"none", <<3, st[2]>>>>
Searched(o) ==
  LET n == Len(o.search) + 2
      step[i \in 0..n] == IF i = 0 THEN <<"", <<0, 1>>>> ELSE SearchStep(o, step[i - 1][2])
  IN SelectSeq([i \in 1..n |-> step[i][1]], LAMBDA name : name # "none")

-----------------------------------------------------------------------------
Sboxes == {s \in [Half -> Half] : \A a, b \in Half : s[a] = s[b] => a = b}
Seeds == {<<a, b, b, a>> : a, b \in Half}
OrderInit ==
  order \in
    [kind : {"ids"}, f : [Half -> Half], low : {1}, high : {1, 3, 2^(2 * Bits) - 2, 2^(2 * Bits)}]
    \cup [kind : {"hints"}, sbox : Sboxes, seed : Seeds, servers : 0..(MaxHints + 1), rotate : BOOLEAN]
    \cup [kind : {"search"}, search : Suffixes, dots : 0..2, ndots : 0..2]
OrderNext == UNCHANGED orderVars

\* No number of a query is used again before every other number of the range was,
\* and none lies outside it; a shuffle never takes two records for one; every name
\* server is tried exactly once, in the order of resolv.conf or, if it says rotate,
\* in any; every candidate name is tried once, the name itself first if it has
\* enough dots and last otherwise.
OrderExact ==
  CASE order.kind = "ids" ->
         /\ LET steps == Steps(order)
            IN Len(steps) = Length(order) /\ {steps[i] : i \in DOMAIN steps} = order.low..order.high
         /\ LET mod == Mod(order)
            IN \A n \in 0..(mod * mod - 1) : PermutorD(order.f, mod, PermutorE(order.f, mod, n)) = n
    [] order.kind = "hints" ->
         LET g == Grepped(order)
             soa == Soa(order)
         IN /\ Cardinality({Shuffle(order.sbox, a, order.seed) : a \in Word}) = Cardinality(Word)
            /\ Len(g) = Len(soa) /\ {g[i] : i \in DOMAIN g} = {soa[i] : i \in DOMAIN soa}
            /\ \A i, j \in DOMAIN g : i < j => g[i].priority <= g[j].priority
    [] order.kind = "search" ->
         Searched(order) = IF order.dots >= order.ndots THEN <<"">> \o order.search
                           ELSE Append(order.search, "")
=============================================================================
