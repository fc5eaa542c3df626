----------------------------- MODULE SeqLemmas -----------------------------
(***************************************************************************)
(* Facts about the list operators of SeqOps and about Range and NoDup,     *)
(* cited by the proofs about the components.                               *)
(*                                                                         *)
(* The induction principles of the library take the predicate as an        *)
(* operator. Here the predicate is a set of numbers, which first-order     *)
(* provers can instantiate.                                                *)
(***************************************************************************)
EXTENDS SeqOps, WellFoundedInduction, SequenceTheorems, TLAPS

\* Every non-empty set of natural numbers has a least element.
LEMMA NatMin ==
  ASSUME NEW T, T \subseteq Nat, T # {}
  PROVE  \E n \in T : \A m \in T : n <= m
<1>1. \E x \in T : \A y \in T : ~ (<<y, x>> \in OpToRel(<, Nat))
  BY NatLessThanWellFounded, WFMin
<1>2. PICK x \in T : \A y \in T : ~ (<<y, x>> \in OpToRel(<, Nat))
  BY <1>1
<1>3. \A y \in T : ~(y < x)
  BY <1>2 DEF OpToRel
<1>4. \A y \in T : x <= y
  BY <1>3
<1> QED BY <1>4

\* Induction: a set that contains 0 and is closed under successor.
LEMMA SetInduction ==
  ASSUME NEW T, 0 \in T, \A n \in Nat : n \in T => n + 1 \in T
  PROVE  Nat \subseteq T
<1> SUFFICES ASSUME Nat \ T # {} PROVE FALSE
  OBVIOUS
<1>1. PICK n \in Nat \ T : \A m \in Nat \ T : n <= m
  BY NatMin
<1>2. n # 0
  OBVIOUS
<1>3. n - 1 \in Nat /\ n - 1 \in T
  BY <1>1, <1>2
<1> QED BY <1>3

\* Repeating a step N times, as a recursive function on 0..N does, is possible.
Iterates(f, N, X, a, g) ==
  f \in [0..N -> X] /\ f[0] = a /\ \A n \in 1..N : f[n] = g[f[n - 1]]

LEMMA Iteration ==
  ASSUME NEW N \in Nat, NEW X, NEW a \in X, NEW g \in [X -> X]
  PROVE  \E f : Iterates(f, N, X, a, g)
<1> DEFINE T == {k \in Nat : \E f \in [0..k -> X] :
                               f[0] = a /\ \A n \in 1..k : f[n] = g[f[n - 1]]}
<1>1. 0 \in T
  <2> DEFINE f == [n \in 0..0 |-> a]
  <2>1. f \in [0..0 -> X] /\ f[0] = a /\ \A n \in 1..0 : f[n] = g[f[n - 1]]
    OBVIOUS
  <2> QED BY <2>1
<1>2. ASSUME NEW k \in Nat, k \in T PROVE k + 1 \in T
  <2>1. PICK f \in [0..k -> X] : f[0] = a /\ \A n \in 1..k : f[n] = g[f[n - 1]]
    BY <1>2
  <2> DEFINE h == [n \in 0..(k + 1) |-> IF n = k + 1 THEN g[f[k]] ELSE f[n]]
  <2>2. h \in [0..(k + 1) -> X]
    <3>1. ASSUME NEW n \in 0..(k + 1) PROVE (IF n = k + 1 THEN g[f[k]] ELSE f[n]) \in X
      <4>1. k \in 0..k /\ (n # k + 1 => n \in 0..k)
        OBVIOUS
      <4> QED BY <2>1, <4>1
    <3> QED BY <3>1
  <2>3. h[0] = a
    BY <2>1
  <2>4. ASSUME NEW n \in 1..(k + 1) PROVE h[n] = g[h[n - 1]]
    <3>1. n - 1 \in 0..k /\ n - 1 # k + 1 /\ n \in 0..(k + 1)
      OBVIOUS
    <3>2. h[n - 1] = f[n - 1]
      BY <3>1
    <3>3. CASE n = k + 1
      BY <3>1, <3>2, <3>3
    <3>4. CASE n # k + 1
      <4>1. n \in 1..k /\ h[n] = f[n]
        BY <3>1, <3>4
      <4> QED BY <2>1, <3>2, <4>1
    <3> QED BY <3>3, <3>4
  <2> HIDE DEF h
  <2> QED BY <2>2, <2>3, <2>4
<1> HIDE DEF T
<1>3. Nat \subseteq T
  BY <1>1, <1>2, SetInduction
<1> QED BY <1>3 DEF T, Iterates

-----------------------------------------------------------------------------
(***************************************************************************)
(* Range and NoDup of the ordinary sequence operators.                     *)
(***************************************************************************)

\* The elements of a sequence, by position.
LEMMA RangeDef ==
  ASSUME NEW X, NEW q \in Seq(X)
  PROVE  /\ Range(q) = {q[i] : i \in 1..Len(q)}
         /\ Range(q) \subseteq X
         /\ q = <<>> <=> Range(q) = {}
<1>1. DOMAIN q = 1..Len(q)
  OBVIOUS
<1>2. Range(q) = {q[i] : i \in 1..Len(q)}
  BY <1>1 DEF Range
<1>3. q # <<>> => 1 \in 1..Len(q)
  OBVIOUS
<1> QED BY <1>2, <1>3

\* The empty list and a list of one.
LEMMA RangeSmall ==
  ASSUME NEW X, NEW x \in X
  PROVE  /\ Range(<<>>) = {} /\ NoDup(<<>>)
         /\ Range(<<x>>) = {x} /\ NoDup(<<x>>) /\ <<x>> \in Seq(X)
BY DEF Range, NoDup

\* Linking list t behind list s.
LEMMA RangeConcat ==
  ASSUME NEW X, NEW s \in Seq(X), NEW t \in Seq(X)
  PROVE  /\ s \o t \in Seq(X)
         /\ Range(s \o t) = Range(s) \cup Range(t)
         /\ NoDup(s) /\ NoDup(t) /\ Range(s) \cap Range(t) = {} => NoDup(s \o t)
<1> DEFINE u == s \o t
<1>1. u \in Seq(X) /\ Len(u) = Len(s) + Len(t)
  OBVIOUS
<1>2. \A i \in 1..Len(s) : u[i] = s[i]
  OBVIOUS
<1>3. \A i \in 1..Len(t) : u[Len(s) + i] = t[i]
  OBVIOUS
<1>4. \A i \in 1..Len(u) : i \in 1..Len(s) \/ i - Len(s) \in 1..Len(t)
  BY <1>1
<1>a. \A i \in 1..Len(u) : i \notin 1..Len(s) => u[i] = t[i - Len(s)]
  OBVIOUS
<1> HIDE DEF u
<1>5. Range(u) = {u[i] : i \in 1..Len(u)} /\ Range(s) = {s[i] : i \in 1..Len(s)}
        /\ Range(t) = {t[i] : i \in 1..Len(t)}
  BY <1>1, RangeDef
<1>6. Range(u) \subseteq Range(s) \cup Range(t)
  BY <1>2, <1>4, <1>5, <1>a
<1>7. Range(s) \subseteq Range(u)
  BY <1>1, <1>2, <1>5
<1>8. Range(t) \subseteq Range(u)
  <2>1. \A i \in 1..Len(t) : Len(s) + i \in 1..Len(u)
    BY <1>1
  <2> QED BY <2>1, <1>3, <1>5
<1>9. ASSUME NoDup(s), NoDup(t), Range(s) \cap Range(t) = {} PROVE NoDup(u)
  <2> SUFFICES ASSUME NEW i \in 1..Len(u), NEW j \in 1..Len(u), u[i] = u[j]
               PROVE  i = j
    BY DEF NoDup
  <2>1. CASE i \in 1..Len(s) /\ j \in 1..Len(s)
    BY <2>1, <1>2, <1>9 DEF NoDup
  <2>2. CASE i \notin 1..Len(s) /\ j \notin 1..Len(s)
    <3>1. i - Len(s) \in 1..Len(t) /\ j - Len(s) \in 1..Len(t)
      BY <2>2, <1>4
    <3>2. t[i - Len(s)] = t[j - Len(s)]
      BY <2>2, <1>a
    <3>3. i - Len(s) = j - Len(s)
      BY <3>1, <3>2, <1>9 DEF NoDup
    <3> QED BY <3>3, <1>1
  <2>3. CASE i \in 1..Len(s) /\ j \notin 1..Len(s)
    <3>1. j - Len(s) \in 1..Len(t)
      BY <2>3, <1>4
    <3>2. u[i] \in Range(s) /\ u[j] \in Range(t)
      BY <2>3, <3>1, <1>2, <1>a, <1>5
    <3> QED BY <3>2, <1>9
  <2>4. CASE i \notin 1..Len(s) /\ j \in 1..Len(s)
    <3>1. i - Len(s) \in 1..Len(t)
      BY <2>4, <1>4
    <3>2. u[j] \in Range(s) /\ u[i] \in Range(t)
      BY <2>4, <3>1, <1>2, <1>a, <1>5
    <3> QED BY <3>2, <1>9
  <2> QED BY <2>1, <2>2, <2>3, <2>4
<1> QED BY <1>1, <1>6, <1>7, <1>8, <1>9 DEF u

\* Linking one element behind list s (dill_qlist_push, dill_list_insert).
LEMMA RangePush ==
  ASSUME NEW X, NEW s \in Seq(X), NEW x \in X
  PROVE  /\ s \o <<x>> \in Seq(X) /\ Append(s, x) = s \o <<x>>
         /\ Range(s \o <<x>>) = Range(s) \cup {x}
         /\ NoDup(s) /\ x \notin Range(s) => NoDup(s \o <<x>>)
<1> DEFINE y == <<x>>
<1>1. y \in Seq(X) /\ Range(y) = {x} /\ NoDup(y)
  BY RangeSmall
<1>2. Append(s, x) = s \o y
  OBVIOUS
<1> HIDE DEF y
<1>3. /\ s \o y \in Seq(X) /\ Range(s \o y) = Range(s) \cup Range(y)
      /\ NoDup(s) /\ NoDup(y) /\ Range(s) \cap Range(y) = {} => NoDup(s \o y)
  BY <1>1, RangeConcat
<1> QED BY <1>1, <1>2, <1>3 DEF y

\* Popping the first element.
LEMMA RangeTail ==
  ASSUME NEW X, NEW q \in Seq(X), q # <<>>
  PROVE  /\ Head(q) \in Range(q) /\ Head(q) \in X
         /\ Tail(q) \in Seq(X)
         /\ Range(Tail(q)) \subseteq Range(q)
         /\ Range(q) = Range(Tail(q)) \cup {Head(q)}
         /\ NoDup(q) => NoDup(Tail(q)) /\ Head(q) \notin Range(Tail(q))
<1> DEFINE t == Tail(q)
<1>1. t \in Seq(X) /\ Len(t) = Len(q) - 1 /\ \A i \in 1..Len(t) : t[i] = q[i + 1]
  OBVIOUS
<1>2. Head(q) = q[1] /\ 1 \in 1..Len(q)
  OBVIOUS
<1> HIDE DEF t
<1>3. Range(q) = {q[i] : i \in 1..Len(q)} /\ Range(t) = {t[i] : i \in 1..Len(t)}
        /\ Range(q) \subseteq X
  BY <1>1, RangeDef
<1>4. Range(t) \subseteq Range(q)
  <2>1. \A i \in 1..Len(t) : i + 1 \in 1..Len(q)
    BY <1>1
  <2> QED BY <2>1, <1>1, <1>3
<1>5. Range(q) \subseteq Range(t) \cup {Head(q)}
  <2>1. ASSUME NEW i \in 1..Len(q), i # 1 PROVE q[i] \in Range(t)
    <3>1. i - 1 \in 1..Len(t)
      BY <2>1, <1>1
    <3>2. t[i - 1] = q[i]
      BY <3>1, <1>1
    <3> QED BY <3>1, <3>2, <1>3
  <2> QED BY <2>1, <1>2, <1>3
<1>6. ASSUME NoDup(q) PROVE NoDup(t) /\ Head(q) \notin Range(t)
  <2>1. \A i \in 1..Len(t) : i + 1 \in 1..Len(q) /\ i + 1 # 1
    BY <1>1
  <2>2. NoDup(t)
    BY <2>1, <1>1, <1>6 DEF NoDup
  <2>3. Head(q) \notin Range(t)
    BY <2>1, <1>1, <1>2, <1>3, <1>6 DEF NoDup
  <2> QED BY <2>2, <2>3
<1> QED BY <1>1, <1>2, <1>3, <1>4, <1>5, <1>6 DEF t

\* A part of a list.
LEMMA RangeSubSeq ==
  ASSUME NEW X, NEW q \in Seq(X), NEW m \in Nat, NEW n \in Nat,
         1 <= m, n <= Len(q)
  PROVE  /\ SubSeq(q, m, n) \in Seq(X)
         /\ Range(SubSeq(q, m, n)) = {q[i] : i \in m..n}
         /\ Range(SubSeq(q, m, n)) \subseteq Range(q)
         /\ NoDup(q) => NoDup(SubSeq(q, m, n))
<1> DEFINE s == SubSeq(q, m, n)
<1>1. s \in Seq(X) /\ Len(s) = IF m <= n THEN n - m + 1 ELSE 0
  OBVIOUS
<1>2. \A i \in 1..Len(s) : s[i] = q[m + i - 1]
  OBVIOUS
<1> HIDE DEF s
<1>3. \A i \in 1..Len(s) : m + i - 1 \in m..n /\ m + i - 1 \in 1..Len(q)
  BY <1>1
<1>4. \A i \in m..n : i \in 1..Len(q) /\ i - m + 1 \in 1..Len(s)
                        /\ m + (i - m + 1) - 1 = i
  BY <1>1
<1>5. Range(s) = {s[i] : i \in 1..Len(s)} /\ Range(q) = {q[i] : i \in 1..Len(q)}
  BY <1>1, RangeDef
<1>6. Range(s) \subseteq {q[i] : i \in m..n}
  BY <1>2, <1>3, <1>5
<1>7. {q[i] : i \in m..n} \subseteq Range(s)
  <2> SUFFICES ASSUME NEW i \in m..n PROVE q[i] \in Range(s)
    OBVIOUS
  <2>1. s[i - m + 1] = q[i]
    BY <1>2, <1>4
  <2> QED BY <2>1, <1>4, <1>5
<1>8. {q[i] : i \in m..n} \subseteq Range(q)
  BY <1>4, <1>5
<1>9. ASSUME NoDup(q) PROVE NoDup(s)
  <2> SUFFICES ASSUME NEW i \in 1..Len(s), NEW j \in 1..Len(s), s[i] = s[j]
               PROVE  i = j
    BY DEF NoDup
  <2>1. m + i - 1 = m + j - 1
    BY <1>2, <1>3, <1>9 DEF NoDup
  <2> QED BY <2>1, <1>1
<1> QED BY <1>1, <1>6, <1>7, <1>8, <1>9 DEF s

\* Linking x into q in front of position k (dill_rbtree_insert of a timer).
LEMMA RangeInsert ==
  ASSUME NEW X, NEW q \in Seq(X), NEW x \in X, NEW k \in 1..(Len(q) + 1)
  PROVE  LET s == SubSeq(q, 1, k - 1) \o <<x>> \o SubSeq(q, k, Len(q)) IN
         /\ s \in Seq(X)
         /\ Range(s) = Range(q) \cup {x}
         /\ NoDup(q) /\ x \notin Range(q) => NoDup(s)
<1> DEFINE a == SubSeq(q, 1, k - 1)
           z == SubSeq(q, k, Len(q))
<1>0. k \in Nat /\ k - 1 \in Nat /\ 1 <= k /\ k - 1 <= Len(q) /\ Len(q) \in Nat
  OBVIOUS
<1>1. /\ a \in Seq(X) /\ Range(a) = {q[i] : i \in 1..(k-1)}
      /\ Range(a) \subseteq Range(q) /\ (NoDup(q) => NoDup(a))
  BY <1>0, RangeSubSeq
<1>2. /\ z \in Seq(X) /\ Range(z) = {q[i] : i \in k..Len(q)}
      /\ Range(z) \subseteq Range(q) /\ (NoDup(q) => NoDup(z))
  BY <1>0, RangeSubSeq
<1>3. Range(q) = {q[i] : i \in 1..Len(q)}
  BY RangeDef
<1>4. Range(q) \subseteq Range(a) \cup Range(z)
  <2>1. \A i \in 1..Len(q) : i \in 1..(k-1) \/ i \in k..Len(q)
    OBVIOUS
  <2> QED BY <2>1, <1>1, <1>2, <1>3
<1>5. NoDup(q) => Range(a) \cap Range(z) = {}
  <2>1. \A i \in 1..(k-1), j \in k..Len(q) : i # j /\ i \in 1..Len(q) /\ j \in 1..Len(q)
    OBVIOUS
  <2> QED BY <2>1, <1>1, <1>2 DEF NoDup
<1> HIDE DEF a, z
<1> DEFINE w == a \o <<x>>
<1>7. /\ w \in Seq(X) /\ Range(w) = Range(a) \cup {x}
      /\ NoDup(a) /\ x \notin Range(a) => NoDup(w)
  BY <1>1, RangePush
<1> HIDE DEF w
<1>8. w \o z \in Seq(X) /\ Range(w \o z) = Range(w) \cup Range(z)
      /\ (NoDup(w) /\ NoDup(z) /\ Range(w) \cap Range(z) = {} => NoDup(w \o z))
  BY <1>2, <1>7, RangeConcat
<1>9. Range(w \o z) = Range(q) \cup {x}
  BY <1>1, <1>2, <1>4, <1>7, <1>8
<1>10. NoDup(q) /\ x \notin Range(q) => NoDup(w \o z)
  BY <1>1, <1>2, <1>5, <1>7, <1>8
<1> QED BY <1>8, <1>9, <1>10 DEF w, a, z

-----------------------------------------------------------------------------
(***************************************************************************)
(* Without.                                                                *)
(***************************************************************************)

\* G is the function inside Without, on the first n elements of q.
IsFilter(G, q, S, n) ==
  G = [i \in 0..n |-> IF i = 0 THEN <<>> ELSE Pass(G[i-1], q[i], S)]

\* The recursive definition of Without does define a function.
LEMMA FilterExists ==
  ASSUME NEW q, NEW S
  PROVE  \A n \in Nat : \E G : IsFilter(G, q, S, n)
<1> DEFINE T == {n \in Nat : \E G : IsFilter(G, q, S, n)}
<1>1. 0 \in T
  <2> DEFINE G == [i \in 0..0 |-> <<>>]
  <2>1. IsFilter(G, q, S, 0)
    BY DEF IsFilter
  <2> QED BY <2>1
<1>2. ASSUME NEW n \in Nat, n \in T PROVE n + 1 \in T
  <2>1. PICK G : IsFilter(G, q, S, n)
    BY <1>2
  <2> DEFINE H == [i \in 0..(n+1) |-> IF i = 0 THEN <<>> ELSE Pass(G[i-1], q[i], S)]
  <2>2. \A i \in 0..n : G[i] = IF i = 0 THEN <<>> ELSE Pass(G[i-1], q[i], S)
    BY <2>1 DEF IsFilter
  <2>3. \A i \in 0..(n+1) : H[i] = IF i = 0 THEN <<>> ELSE Pass(G[i-1], q[i], S)
    OBVIOUS
  <2>4. \A i \in 0..n : H[i] = G[i]
    BY <2>2, <2>3
  <2>5. \A i \in 1..(n+1) : H[i-1] = G[i-1]
    BY <2>4
  <2>6. H = [i \in 0..(n+1) |-> H[i]]
    OBVIOUS
  <2> HIDE DEF H
  <2>7. ASSUME NEW i \in 0..(n+1)
        PROVE  H[i] = IF i = 0 THEN <<>> ELSE Pass(H[i-1], q[i], S)
    <3>1. CASE i = 0
      BY <3>1, <2>3
    <3>2. CASE i # 0
      <4>1. H[i-1] = G[i-1]
        BY <2>5, <3>2
      <4>2. H[i] = Pass(G[i-1], q[i], S)
        BY <2>3, <3>2
      <4> QED BY <4>1, <4>2, <3>2
    <3> QED BY <3>1, <3>2
  <2>8. IsFilter(H, q, S, n + 1)
    BY <2>6, <2>7 DEF IsFilter
  <2> QED BY <2>8
<1> HIDE DEF T
<1>3. Nat \subseteq T
  BY <1>1, <1>2, SetInduction
<1> QED BY <1>3 DEF T

\* Without is the last value of such a function.
LEMMA WithoutDef ==
  ASSUME NEW X, NEW q \in Seq(X), NEW S
  PROVE  \E G : IsFilter(G, q, S, Len(q)) /\ Without(q, S) = G[Len(q)]
<1> DEFINE G == CHOOSE F : IsFilter(F, q, S, Len(q))
<1>1. Len(q) \in Nat
  OBVIOUS
<1>2. \E F : IsFilter(F, q, S, Len(q))
  BY <1>1, FilterExists
<1>3. IsFilter(G, q, S, Len(q))
  BY <1>2
<1>4. Without(q, S) = G[Len(q)]
  BY DEF Without, IsFilter
<1> HIDE DEF G
<1> QED BY <1>3, <1>4

\* What erasing the elements of S does to a list: the others stay, each once
\* if they were there once, and the first one stays first.
LEMMA WithoutFacts ==
  ASSUME NEW X, NEW q \in Seq(X), NEW S
  PROVE  /\ Without(q, S) \in Seq(X)
         /\ Range(Without(q, S)) = Range(q) \ S
         /\ NoDup(q) => NoDup(Without(q, S))
         /\ q # <<>> /\ Head(q) \notin S
              => Without(q, S) # <<>> /\ Head(Without(q, S)) = Head(q)
<1>1. PICK G : IsFilter(G, q, S, Len(q)) /\ Without(q, S) = G[Len(q)]
  BY WithoutDef
<1> DEFINE First(n) == {q[j] : j \in 1..n}
           P(n) == /\ G[n] \in Seq(X)
                   /\ Range(G[n]) = First(n) \ S
                   /\ NoDup(q) => NoDup(G[n])
                   /\ n >= 1 /\ q[1] \notin S => Len(G[n]) >= 1 /\ G[n][1] = q[1]
           T == {n \in Nat : n <= Len(q) => P(n)}
<1>2. 0 \in T
  <2>1. G[0] = <<>>
    BY <1>1 DEF IsFilter
  <2>2. P(0)
    BY <2>1 DEF Range, NoDup
  <2> QED BY <2>2
<1>3. ASSUME NEW n \in Nat, n \in T PROVE n + 1 \in T
  <2> SUFFICES ASSUME n + 1 <= Len(q) PROVE P(n + 1)
    OBVIOUS
  <2> DEFINE g == G[n]
             x == q[n + 1]
  <2>1. P(n)
    BY <1>3
  <2>2. G[n + 1] = Pass(g, x, S)
    BY <1>1 DEF IsFilter
  <2>3. x \in X
    OBVIOUS
  <2>4. First(n + 1) = First(n) \cup {x}
    <3>1. \A j \in 1..(n+1) : j \in 1..n \/ j = n + 1
      OBVIOUS
    <3>2. \A j \in 1..n : j \in 1..(n+1)
      OBVIOUS
    <3> QED BY <3>1, <3>2
  <2>5. NoDup(q) => x \notin First(n)
    BY DEF NoDup
  <2>6. n = 0 => First(n) = {}
    OBVIOUS
  <2>7. CASE x \in S
    <3>1. G[n + 1] = g
      BY <2>2, <2>7 DEF Pass
    <3>2. n + 1 >= 1 /\ q[1] \notin S => n >= 1
      BY <2>7
    <3> QED BY <3>1, <3>2, <2>1, <2>4, <2>7
  <2>8. CASE x \notin S
    <3>1. G[n + 1] = Append(g, x)
      BY <2>2, <2>8 DEF Pass
    <3>2. g \in Seq(X) /\ Range(g) = First(n) \ S /\ (NoDup(q) => NoDup(g))
      BY <2>1
    <3>3. n >= 1 /\ q[1] \notin S => Len(g) >= 1 /\ g[1] = q[1]
      BY <2>1
    <3> HIDE DEF g, First
    <3>6. /\ g \o <<x>> \in Seq(X) /\ Append(g, x) = g \o <<x>>
          /\ Range(g \o <<x>>) = Range(g) \cup {x}
          /\ NoDup(g) /\ x \notin Range(g) => NoDup(g \o <<x>>)
      BY <3>2, <2>3, RangePush
    <3>7. Range(G[n+1]) = First(n + 1) \ S
      BY <3>1, <3>2, <3>6, <2>4, <2>8
    <3>8. NoDup(q) => NoDup(G[n+1])
      BY <3>1, <3>2, <3>6, <2>5
    <3>9. q[1] \notin S => Len(G[n+1]) >= 1 /\ G[n+1][1] = q[1]
      <4>1. CASE n = 0
        <5>1. Range(g) = {}
          BY <4>1, <3>2, <2>6
        <5>2. g = <<>>
          BY <5>1, <3>2, RangeDef
        <5> QED BY <5>2, <3>1, <4>1
      <4>2. CASE n # 0
        BY <4>2, <3>1, <3>2, <3>3, <2>3
      <4> QED BY <4>1, <4>2
    <3> QED BY <3>1, <3>6, <3>7, <3>8, <3>9
  <2> QED BY <2>7, <2>8
<1>4. Nat \subseteq T
  <2> HIDE DEF T
  <2> QED BY <1>2, <1>3, SetInduction
<1>5. P(Len(q))
  <2>1. Len(q) \in Nat
    OBVIOUS
  <2>2. Len(q) \in T
    BY <2>1, <1>4
  <2> QED BY <2>1, <2>2
<1>6. Range(q) = First(Len(q))
  BY RangeDef
<1>7. q # <<>> /\ Head(q) \notin S
        => Without(q, S) # <<>> /\ Head(Without(q, S)) = Head(q)
  <2> HAVE q # <<>> /\ Head(q) \notin S
  <2>1. Len(q) >= 1 /\ q[1] \notin S /\ Head(q) = q[1]
    OBVIOUS
  <2> DEFINE w == Without(q, S)
  <2>2. w \in Seq(X) /\ Len(w) >= 1 /\ w[1] = q[1]
    BY <1>1, <1>5, <2>1
  <2> HIDE DEF w
  <2>3. w # <<>> /\ Head(w) = w[1]
    BY <2>2
  <2> QED BY <2>1, <2>2, <2>3 DEF w
<1> QED BY <1>1, <1>5, <1>6, <1>7

\* Erasing elements keeps the others in their order.
LEMMA WithoutOrder ==
  ASSUME NEW X, NEW q \in Seq(X), NEW S
  PROVE  \A i, j \in 1..Len(Without(q, S)) : i < j =>
            \E k, l \in 1..Len(q) :
               k < l /\ q[k] = Without(q, S)[i] /\ q[l] = Without(q, S)[j]
<1>1. PICK G : IsFilter(G, q, S, Len(q)) /\ Without(q, S) = G[Len(q)]
  BY WithoutDef
<1> DEFINE P(n) == /\ G[n] \in Seq(X)
                   /\ \A i \in 1..Len(G[n]) : \E k \in 1..n : q[k] = G[n][i]
                   /\ \A i, j \in 1..Len(G[n]) : i < j =>
                        \E k, l \in 1..n : k < l /\ q[k] = G[n][i] /\ q[l] = G[n][j]
           T == {n \in Nat : n <= Len(q) => P(n)}
<1>2. 0 \in T
  <2>1. G[0] = <<>>
    BY <1>1 DEF IsFilter
  <2>2. P(0)
    BY <2>1
  <2> QED BY <2>2
<1>3. ASSUME NEW n \in Nat, n \in T PROVE n + 1 \in T
  <2> SUFFICES ASSUME n + 1 <= Len(q) PROVE P(n + 1)
    OBVIOUS
  <2> DEFINE g == G[n]
             x == q[n + 1]
  <2>1. P(n)
    BY <1>3
  <2>2. G[n + 1] = Pass(g, x, S) /\ x \in X
    BY <1>1 DEF IsFilter
  <2>3. CASE x \in S
    <3>1. G[n + 1] = g
      BY <2>2, <2>3 DEF Pass
    <3>2. \A k \in 1..n : k \in 1..(n + 1)
      OBVIOUS
    <3>3. /\ g \in Seq(X)
          /\ \A i \in 1..Len(g) : \E k \in 1..(n + 1) : q[k] = g[i]
          /\ \A i, j \in 1..Len(g) : i < j =>
               \E k, l \in 1..(n + 1) : k < l /\ q[k] = g[i] /\ q[l] = g[j]
      <4>1. /\ g \in Seq(X)
            /\ \A i \in 1..Len(g) : \E k \in 1..n : q[k] = g[i]
            /\ \A i, j \in 1..Len(g) : i < j =>
                 \E k, l \in 1..n : k < l /\ q[k] = g[i] /\ q[l] = g[j]
        BY <2>1
      <4> HIDE DEF g
      <4>2. ASSUME NEW i \in 1..Len(g) PROVE \E k \in 1..(n + 1) : q[k] = g[i]
        BY <3>2, <4>1
      <4>3. ASSUME NEW i \in 1..Len(g), NEW j \in 1..Len(g), i < j
            PROVE  \E k, l \in 1..(n + 1) : k < l /\ q[k] = g[i] /\ q[l] = g[j]
        <5>1. PICK k \in 1..n, l \in 1..n : k < l /\ q[k] = g[i] /\ q[l] = g[j]
          BY <4>1, <4>3
        <5> QED BY <3>2, <5>1
      <4> QED BY <4>1, <4>2, <4>3
    <3> HIDE DEF g
    <3> QED BY <3>1, <3>3
  <2>4. CASE x \notin S
    <3>1. /\ g \in Seq(X)
          /\ \A i \in 1..Len(g) : \E k \in 1..n : q[k] = g[i]
          /\ \A i, j \in 1..Len(g) : i < j =>
               \E k, l \in 1..n : k < l /\ q[k] = g[i] /\ q[l] = g[j]
      BY <2>1
    <3> DEFINE w == G[n + 1]
    <3>2. w = Append(g, x)
      BY <2>2, <2>4 DEF Pass
    <3> HIDE DEF g, w
    <3>3. /\ w \in Seq(X) /\ Len(w) = Len(g) + 1 /\ Len(g) \in Nat /\ w[Len(g) + 1] = x
          /\ \A i \in 1..Len(g) : w[i] = g[i]
      BY <2>2, <3>1, <3>2
    <3>4. \A i \in 1..Len(w) : i \in 1..Len(g) \/ i = Len(g) + 1
      BY <3>3
    <3>5. (\A k \in 1..n : k \in 1..(n + 1) /\ k < n + 1) /\ n + 1 \in 1..(n + 1)
      OBVIOUS
    <3>6. ASSUME NEW i \in 1..Len(w) PROVE \E k \in 1..(n + 1) : q[k] = w[i]
      <4>1. CASE i \in 1..Len(g)
        <5>1. PICK k \in 1..n : q[k] = g[i]
          BY <3>1, <4>1
        <5> QED BY <3>3, <3>5, <4>1, <5>1
      <4>2. CASE i = Len(g) + 1
        BY <3>3, <3>5, <4>2
      <4> QED BY <3>4, <4>1, <4>2
    <3>7. ASSUME NEW i \in 1..Len(w), NEW j \in 1..Len(w), i < j
          PROVE  \E k, l \in 1..(n + 1) : k < l /\ q[k] = w[i] /\ q[l] = w[j]
      <4>1. i \in 1..Len(g)
        BY <3>3, <3>7
      <4>2. CASE j \in 1..Len(g)
        <5>1. PICK k \in 1..n, l \in 1..n : k < l /\ q[k] = g[i] /\ q[l] = g[j]
          BY <3>1, <3>7, <4>1, <4>2
        <5>2. w[i] = g[i] /\ w[j] = g[j] /\ k \in 1..(n + 1) /\ l \in 1..(n + 1)
          BY <3>3, <3>5, <4>1, <4>2, <5>1
        <5> QED BY <5>1, <5>2
      <4>3. CASE j = Len(g) + 1
        <5>1. PICK k \in 1..n : q[k] = g[i]
          BY <3>1, <4>1
        <5>2. w[i] = g[i] /\ w[j] = q[n + 1] /\ k \in 1..(n + 1) /\ k < n + 1
          BY <3>3, <3>5, <4>1, <4>3, <5>1
        <5> QED BY <3>5, <5>1, <5>2
      <4> QED BY <3>4, <4>2, <4>3
    <3> QED BY <3>3, <3>6, <3>7 DEF w
  <2> QED BY <2>3, <2>4
<1>4. Nat \subseteq T
  <2> HIDE DEF T
  <2> QED BY <1>2, <1>3, SetInduction
<1>5. P(Len(q))
  <2>1. Len(q) \in Nat
    OBVIOUS
  <2>2. Len(q) \in T
    BY <2>1, <1>4
  <2> HIDE DEF P
  <2>3. Len(q) =< Len(q) => P(Len(q))
    BY <2>2, Zenon
  <2>4. Len(q) =< Len(q)
    BY <2>1
  <2> QED BY <2>3, <2>4, Zenon
<1> QED BY <1>1, <1>5

\* A list that holds nothing but x is the list of x alone (dill_list_oneitem).
LEMMA OneItem ==
  ASSUME NEW X, NEW q \in Seq(X), NEW x \in X, NoDup(q), Range(q) = {x}
  PROVE  q = <<x>>
<1>0. Len(q) \in Nat
  OBVIOUS
<1>1. Range(q) = {q[i] : i \in 1..Len(q)}
  BY RangeDef
<1>2. \A i \in 1..Len(q) : q[i] = x
  BY <1>1
<1>3. \A i, j \in 1..Len(q) : i = j
  BY <1>2 DEF NoDup
<1>4. 1..Len(q) # {}
  BY <1>1
<1>5. Len(q) = 1
  <2>1. Len(q) # 0
    BY <1>0, <1>4
  <2>2. ~(Len(q) > 1)
    <3>1. SUFFICES ASSUME Len(q) > 1 PROVE FALSE
      OBVIOUS
    <3>2. 1 \in 1..Len(q) /\ 2 \in 1..Len(q)
      BY <1>0, <3>1
    <3> QED BY <1>3, <3>2
  <2> DEFINE n == Len(q)
  <2>3. n \in Nat /\ n # 0 /\ ~(n > 1)
    BY <1>0, <2>1, <2>2
  <2> HIDE DEF n
  <2>4. n = 1
    BY <2>3
  <2> QED BY <2>4 DEF n
<1> QED BY <1>2, <1>5

\* A function of the numbers up to n is a sequence.
LEMMA SeqFromFunction ==
  ASSUME NEW X, NEW n \in Nat, NEW f \in [1..n -> X] PROVE f \in Seq(X) /\ Len(f) = n
OBVIOUS

\* A sequence over a set is one over a larger set.
LEMMA SeqWider ==
  ASSUME NEW X, NEW Y, X \subseteq Y, NEW s \in Seq(X) PROVE s \in Seq(Y)
OBVIOUS

\* A piece of a sequence, by position.
IsPiece(p, X, s, i, n) == p \in Seq(X) /\ Len(p) = n /\ \A j \in 1..n : p[j] = s[i + j]

LEMMA Piece ==
  ASSUME NEW X, NEW s \in Seq(X), NEW i \in Nat, NEW n \in Nat, i + n <= Len(s)
  PROVE  IsPiece(SubSeq(s, i + 1, i + n), X, s, i, n)
BY DEF IsPiece

\* The ordinary laws of concatenation.
LEMMA ConcatFacts ==
  ASSUME NEW X
  PROVE  \A u, v \in Seq(X) :
           /\ u \o v \in Seq(X) /\ Len(u \o v) = Len(u) + Len(v)
           /\ Len(u) \in Nat /\ Len(v) \in Nat
           /\ \A i \in 1..(Len(u) + Len(v)) :
                 (u \o v)[i] = IF i <= Len(u) THEN u[i] ELSE v[i - Len(u)]
OBVIOUS

LEMMA ConcatAssoc ==
  ASSUME NEW X
  PROVE  \A a, b, c \in Seq(X) : (a \o b) \o c = a \o (b \o c)
<1> TAKE a \in Seq(X), b \in Seq(X), c \in Seq(X)
<1>1. PICK ab, bc : ab = a \o b /\ bc = b \o c
  OBVIOUS
<1>2. PICK s, t : s = ab \o c /\ t = a \o bc
  OBVIOUS
<1>3. PICK k, m, n : k = Len(a) /\ m = Len(b) /\ n = Len(c)
  OBVIOUS
<1>4. /\ k \in Nat /\ m \in Nat /\ n \in Nat
      /\ ab \in Seq(X) /\ Len(ab) = k + m /\ bc \in Seq(X) /\ Len(bc) = m + n
  BY <1>1, <1>3, ConcatFacts
<1>5. /\ \A i \in 1..(k + m) : ab[i] = IF i <= k THEN a[i] ELSE b[i - k]
      /\ \A i \in 1..(m + n) : bc[i] = IF i <= m THEN b[i] ELSE c[i - m]
  BY <1>1, <1>3, ConcatFacts
<1>6. /\ s \in Seq(X) /\ Len(s) = (k + m) + n
      /\ \A i \in 1..((k + m) + n) : s[i] = IF i <= k + m THEN ab[i] ELSE c[i - (k + m)]
  <2>1. PICK l : l = k + m /\ l \in Nat /\ Len(ab) = l
    BY <1>4
  <2>2. /\ s \in Seq(X) /\ Len(s) = l + n
        /\ \A i \in 1..(l + n) : s[i] = IF i <= l THEN ab[i] ELSE c[i - l]
    <3>1. ab \in Seq(X) /\ s = ab \o c /\ Len(c) = n
      BY <1>2, <1>3, <1>4
    <3> QED BY <2>1, <3>1, ConcatFacts
  <2> QED BY <2>1, <2>2
<1>7. /\ t \in Seq(X) /\ Len(t) = (k + m) + n
      /\ \A i \in 1..((k + m) + n) : t[i] = IF i <= k THEN a[i] ELSE bc[i - k]
  <2>1. PICK l : l = m + n /\ l \in Nat /\ Len(bc) = l
    BY <1>4
  <2>2. /\ t \in Seq(X) /\ Len(t) = k + l
        /\ \A i \in 1..(k + l) : t[i] = IF i <= k THEN a[i] ELSE bc[i - k]
    <3>1. bc \in Seq(X) /\ t = a \o bc /\ Len(a) = k
      BY <1>2, <1>3, <1>4
    <3> QED BY <2>1, <3>1, ConcatFacts
  <2>3. k + l = (k + m) + n
    BY <1>4, <2>1
  <2> QED BY <2>2, <2>3
<1>8. ASSUME NEW i \in 1..((k + m) + n) PROVE s[i] = t[i]
  <2>0. s[i] = (IF i <= k + m THEN ab[i] ELSE c[i - (k + m)]) /\ t[i] = IF i <= k THEN a[i] ELSE bc[i - k]
    BY <1>6, <1>7
  <2>1. CASE i \in 1..k
    BY <1>4, <1>5, <2>0, <2>1
  <2>2. CASE i \in (k + 1)..(k + m)
    <3>1. s[i] = b[i - k] /\ t[i] = bc[i - k] /\ i - k \in 1..m
      BY <1>4, <1>5, <2>0, <2>2
    <3> QED BY <1>4, <1>5, <3>1
  <2>3. CASE i \in (k + m + 1)..((k + m) + n)
    <3>0. k \in Nat /\ m \in Nat /\ n \in Nat
      BY <1>4
    <3>1. PICK j : j = i - k
      OBVIOUS
    <3>2. ~(i <= k + m) /\ ~(i <= k) /\ j \in 1..(m + n) /\ ~(j <= m) /\ j - m = i - (k + m)
      BY <2>3, <3>0, <3>1
    <3>3. s[i] = c[i - (k + m)] /\ t[i] = bc[j]
      BY <2>0, <3>1, <3>2
    <3>4. bc[j] = c[j - m]
      BY <1>5, <3>2
    <3> QED BY <3>2, <3>3, <3>4
  <2> QED BY <1>4, <2>1, <2>2, <2>3
<1>9. s = t
  BY <1>6, <1>7, <1>8, SeqEqual
<1> QED BY <1>1, <1>2, <1>9

LEMMA ConcatLaws ==
  ASSUME NEW X, NEW u \in Seq(X), NEW v \in Seq(X), NEW x \in X
  PROVE  /\ u \o Append(v, x) = Append(u \o v, x)
         /\ u \o (<<x>> \o v) = Append(u, x) \o v
         /\ u \o <<>> = u /\ <<>> \o u = u
<1> DEFINE y == <<x>>
<1>1. y \in Seq(X) /\ \A s \in Seq(X) : Append(s, x) = s \o y /\ s \o y \in Seq(X)
  BY RangePush
<1>2. u \o v \in Seq(X)
  BY ConcatProperties
<1> HIDE DEF y
<1>3. (u \o v) \o y = u \o (v \o y) /\ (u \o y) \o v = u \o (y \o v)
  <2>1. \A a, b, c \in Seq(X) : (a \o b) \o c = a \o (b \o c)
    BY ConcatAssoc
  <2> QED BY <1>1, <2>1, Zenon
<1>4. u \o <<>> = u /\ <<>> \o u = u
  BY ConcatEmptySeq
<1> QED BY <1>1, <1>2, <1>3, <1>4 DEF y

\* Erasing from a list that grows at its end,
LEMMA WithoutAppend ==
  ASSUME NEW X, NEW q \in Seq(X), NEW x \in X, NEW S
  PROVE  Without(Append(q, x), S) = Pass(Without(q, S), x, S)
<1> DEFINE w == Append(q, x)
<1>1. PICK n : n = Len(q)
  OBVIOUS
<1>2. n \in Nat /\ w \in Seq(X) /\ Len(w) = n + 1 /\ w[n + 1] = x /\ \A i \in 1..n : w[i] = q[i]
  BY <1>1
<1> HIDE DEF w
<1>3. PICK G : IsFilter(G, q, S, n) /\ Without(q, S) = G[n]
  BY <1>1, WithoutDef
<1>4. PICK H : IsFilter(H, w, S, n + 1) /\ Without(w, S) = H[n + 1]
  BY <1>2, WithoutDef
<1>5. \A i \in 0..n : G[i] = IF i = 0 THEN <<>> ELSE Pass(G[i-1], q[i], S)
  BY <1>3 DEF IsFilter
<1>6. \A i \in 0..(n + 1) : H[i] = IF i = 0 THEN <<>> ELSE Pass(H[i-1], w[i], S)
  BY <1>4 DEF IsFilter
<1> DEFINE T == {i \in Nat : i <= n => G[i] = H[i]}
<1>7. 0 \in T
  BY <1>2, <1>5, <1>6
<1>8. ASSUME NEW i \in Nat, i \in T PROVE i + 1 \in T
  <2> SUFFICES ASSUME i + 1 <= n PROVE G[i + 1] = H[i + 1]
    OBVIOUS
  <2>1. G[i] = H[i] /\ i + 1 \in 1..n /\ (i + 1) - 1 = i
    BY <1>2, <1>8
  <2>2. G[i + 1] = Pass(G[i], q[i + 1], S)
    BY <1>2, <1>5, <2>1
  <2>3. H[i + 1] = Pass(H[i], w[i + 1], S)
    BY <1>2, <1>6, <2>1
  <2> QED BY <1>2, <2>1, <2>2, <2>3
<1>9. n \in T
  <2> HIDE DEF T
  <2> QED BY <1>2, <1>7, <1>8, SetInduction
<1>10. H[n + 1] = Pass(H[n], x, S)
  BY <1>2, <1>6
<1> QED BY <1>2, <1>3, <1>4, <1>9, <1>10 DEF w

\* and from one whose first element is taken.
LEMMA WithoutHead ==
  ASSUME NEW X, NEW q \in Seq(X), q # <<>>, NEW S
  PROVE  Without(q, S) = IF Head(q) \in S THEN Without(Tail(q), S)
                         ELSE <<Head(q)>> \o Without(Tail(q), S)
<1> DEFINE w == Tail(q)
           p == IF Head(q) \in S THEN <<>> ELSE <<Head(q)>>
<1>1. PICK n : n = Len(w)
  OBVIOUS
<1>2. /\ n \in Nat /\ w \in Seq(X) /\ Len(q) = n + 1 /\ q[1] = Head(q)
      /\ \A i \in 1..n : w[i] = q[i + 1] /\ w[i] \in X
  BY <1>1
<1>3. p \in Seq(X) /\ p = Pass(<<>>, q[1], S) /\ p \o <<>> = p
  BY <1>2 DEF Pass
<1> HIDE DEF w, p
<1>4. PICK G : IsFilter(G, w, S, n) /\ Without(w, S) = G[n]
  BY <1>1, <1>2, WithoutDef
<1>5. PICK H : IsFilter(H, q, S, n + 1) /\ Without(q, S) = H[n + 1]
  BY <1>2, WithoutDef
<1>6. \A i \in 0..n : G[i] = IF i = 0 THEN <<>> ELSE Pass(G[i-1], w[i], S)
  BY <1>4 DEF IsFilter
<1>7. \A i \in 0..(n + 1) : H[i] = IF i = 0 THEN <<>> ELSE Pass(H[i-1], q[i], S)
  BY <1>5 DEF IsFilter
<1> DEFINE T == {i \in Nat : i <= n => H[i + 1] = p \o G[i] /\ G[i] \in Seq(X)}
<1>8. 0 \in T
  <2>1. H[0] = <<>> /\ G[0] = <<>>
    BY <1>2, <1>6, <1>7
  <2>2. H[1] = Pass(H[0], q[1], S)
    BY <1>2, <1>7
  <2>3. H[1] = p /\ p \o G[0] = p /\ G[0] \in Seq(X)
    BY <1>3, <2>1, <2>2, ConcatLaws
  <2>4. 0 + 1 = 1
    OBVIOUS
  <2> QED BY <2>3, <2>4
<1>9. ASSUME NEW i \in Nat, i \in T PROVE i + 1 \in T
  <2> SUFFICES ASSUME i + 1 <= n PROVE H[i + 2] = p \o G[i + 1] /\ G[i + 1] \in Seq(X)
    OBVIOUS
  <2>1. PICK g, x : g = G[i] /\ x = w[i + 1]
    OBVIOUS
  <2>2. H[i + 1] = p \o g /\ g \in Seq(X) /\ i + 1 \in 1..n /\ (i + 2) - 1 = i + 1 /\ (i + 1) - 1 = i
    BY <1>2, <1>9, <2>1
  <2>3. x \in X /\ x = q[i + 2]
    BY <1>2, <2>1, <2>2
  <2>4. G[i + 1] = Pass(g, x, S)
    BY <1>2, <1>6, <2>1, <2>2
  <2>5. H[i + 2] = Pass(p \o g, x, S)
    <3>1. i + 2 \in 0..(n + 1) /\ i + 2 # 0
      BY <1>2, <2>2
    <3>2. H[i + 2] = Pass(H[(i + 2) - 1], q[i + 2], S)
      BY <1>7, <3>1
    <3> QED BY <2>2, <2>3, <3>2
  <2>6. p \o Append(g, x) = Append(p \o g, x) /\ Append(g, x) \in Seq(X)
    BY <1>3, <2>2, <2>3, ConcatLaws
  <2> QED BY <2>2, <2>4, <2>5, <2>6 DEF Pass
<1>10. n \in T
  <2> HIDE DEF T
  <2> QED BY <1>2, <1>8, <1>9, SetInduction
<1>11. Without(q, S) = p \o Without(w, S) /\ Without(w, S) \in Seq(X)
  BY <1>2, <1>4, <1>5, <1>10
<1> QED BY <1>11, ConcatLaws DEF w, p
=============================================================================
