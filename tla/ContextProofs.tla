--------------------------- MODULE ContextProofs ---------------------------
(***************************************************************************)
(* Proofs about what a thread's context holds besides the scheduler: the   *)
(* table of handles (Handle), the cache of stacks (Stack), the clock (Now) *)
(* and the life of the context itself (Ctx).                               *)
(***************************************************************************)
EXTENDS Handle, Stack, Now, Ctx, SeqLemmas, FiniteSetTheorems

-----------------------------------------------------------------------------
(***************************************************************************)
(* The table of handles is right for any number of objects and types, any  *)
(* initial size and reserve and any number of expansions, as long as the   *)
(* array is not moved while a close function is suspended: either realloc  *)
(* extends the array in place, or no close function suspends.              *)
(***************************************************************************)
Steady == ~Moves \/ SlowClose = {}

Entries == [vfs : Objs \cup {NoObj}, next : Int, type : Types \cup {NoType},
            ptr : (Objs \X Types) \cup {NoObj}]

\* The entries in use.
UsedIn(x) == {h \in 0..(x.nhandles - 1) : x.handles[h].next = Used}

\* x is a struct dill_ctx_handle.
IsCtx(x) ==
  /\ x = Ctx(x.handles, x.nhandles, x.nused, x.first, x.last)
  /\ x.nhandles \in Nat /\ x.nused \in Nat
  /\ x.handles \in [0..(x.nhandles - 1) -> Entries]
  /\ x.last \in -1..(x.nhandles - 1)

\* The list of x is the queue q.
ListIs(x, q) ==
  /\ q \in Seq(0..(x.nhandles - 1)) /\ NoDup(q)
  /\ x.first = IF q = <<>> THEN End ELSE Head(q)
  /\ \A i \in 1..Len(q) :
        x.handles[q[i]].next = IF i = Len(q) THEN End ELSE q[i + 1]
  /\ q # <<>> => x.last = q[Len(q)]

\* nused is what its name says, and no more than Reserve unused entries are
\* missing on the list. This is what keeps dill_hmake from an empty list.
Counted(x, q) ==
  /\ x.nused = Cardinality(UsedIn(x))
  /\ x.nhandles - x.nused - Len(q) <= Reserve

\* Entries in use belong to an object and cache nothing but its pointers.
EntriesOK(x) ==
  \A h \in UsedIn(x) :
     /\ x.handles[h].vfs \in Objs
     /\ x.handles[h].ptr # NoObj
          => x.handles[h].ptr = <<x.handles[h].vfs, x.handles[h].type>>

Table(x, q) == IsCtx(x) /\ ListIs(x, q) /\ Counted(x, q) /\ EntriesOK(x)

\* The numbers in use are those the program holds, each of one object, and
\* those being closed.
Holders ==
  /\ own \in [Objs -> Int]
  /\ UsedIn(ctx) = closing \cup {own[o] : o \in {p \in Objs : own[p] # End}}
  /\ \A o \in Objs : own[o] # End =>
        own[o] \notin closing /\ ctx.handles[own[o]].vfs = o
  /\ \A o, p \in Objs : own[o] # End /\ own[o] = own[p] => o = p
  /\ moved = {}
  /\ SlowClose = {} => closing = {}
  /\ oob = FALSE

\* The inductive invariant.
HInv == Table(ctx, pool) /\ Holders

-----------------------------------------------------------------------------
(***************************************************************************)
(* The list of unused entries.                                             *)
(***************************************************************************)

\* The entries in use can be counted.
LEMMA UsedFinite ==
  ASSUME NEW x, IsCtx(x)
  PROVE  /\ IsFiniteSet(UsedIn(x))
         /\ Cardinality(UsedIn(x)) \in Nat
         /\ Cardinality(UsedIn(x)) <= x.nhandles
<1>1. x.nhandles \in Nat /\ x.nhandles - 1 \in Int /\ 0 \in Int
  BY DEF IsCtx
<1> DEFINE k == x.nhandles - 1
<1> HIDE DEF k
<1>0. k \in Int /\ k + 1 = x.nhandles
  BY <1>1 DEF k
<1>2. IsFiniteSet(0..k) /\ Cardinality(0..k) = x.nhandles
  <2>1. IsFiniteSet(0..k) /\ Cardinality(0..k) = IF 0 > k THEN 0 ELSE k - 0 + 1
    BY <1>0, FS_Interval
  <2> QED
    BY <1>0, <1>1, <2>1
<1>3. UsedIn(x) \in SUBSET (0..k)
  BY DEF UsedIn, k
<1> QED
  BY <1>2, <1>3, FS_Subset, FS_CardinalityType

\* A new entry.
LEMMA EntryIs ==
  ASSUME NEW v \in Objs \cup {NoObj}, NEW k \in Int
  PROVE  /\ Entry(v, k) \in Entries
         /\ Entry(v, k).vfs = v /\ Entry(v, k).next = k /\ Entry(v, k).ptr = NoObj
BY DEF Entry, Entries

\* What dill_hmake does to the list if it has to expand the array, and if not:
\* afterwards the list is not empty, and the old entries are as before.
LEMMA GrownTable ==
  ASSUME NEW x, NEW q, Table(x, q)
  PROVE  /\ Table(Grown(x), GrownPool(x, q))
         /\ GrownPool(x, q) # <<>>
         /\ UsedIn(Grown(x)) = UsedIn(x)
         /\ \A h \in 0..(x.nhandles - 1) : Grown(x).handles[h] = x.handles[h]
         /\ Grown(x).nhandles >= x.nhandles
<1> DEFINE y == Grown(x)
           p == GrownPool(x, q)
           n == x.nhandles
           sz == IF n = 0 THEN InitSize ELSE 2 * n
<1> HIDE DEF y, p, n, sz
<1>0. /\ IsCtx(x) /\ ListIs(x, q) /\ Counted(x, q) /\ EntriesOK(x)
      /\ n \in Nat /\ x.nused \in Nat /\ Reserve \in Nat /\ InitSize \in Nat
      /\ Reserve < InitSize /\ Len(q) \in Nat
  BY HandleAssumption DEF Table, IsCtx, ListIs, n
<1>1. CASE ~Full(x)
  <2>1. y = x /\ p = q
    BY <1>1 DEF Grown, GrownPool, y, p
  <2>2. q # <<>>
    BY <1>0, <1>1 DEF Full, Counted, n
  <2> QED
    BY <1>0, <2>1, <2>2 DEF Table, y, p, n
<1>2. CASE Full(x)
  <2>0. sz \in Nat /\ n < sz /\ sz - n \in Nat /\ sz - n > 0
    BY <1>0 DEF sz
  <2>1. y = Ctx([h \in 0..(sz - 1) |->
                   IF h < n THEN x.handles[h]
                   ELSE Entry(NoObj, IF h = sz - 1 THEN End ELSE h + 1)],
                sz, x.nused, n, sz - 1)
    BY <1>2 DEF Grown, y, n, sz
  <2>2. /\ y.nhandles = sz /\ y.nused = x.nused /\ y.first = n /\ y.last = sz - 1
        /\ y.handles = [h \in 0..(sz - 1) |->
                          IF h < n THEN x.handles[h]
                          ELSE Entry(NoObj, IF h = sz - 1 THEN End ELSE h + 1)]
    BY <2>1 DEF Ctx
  <2>3. \A h \in 0..(n - 1) : h \in 0..(sz - 1) /\ y.handles[h] = x.handles[h]
    BY <1>0, <2>0, <2>2
  <2>4. \A h \in n..(sz - 1) :
           y.handles[h] = Entry(NoObj, IF h = sz - 1 THEN End ELSE h + 1)
    BY <1>0, <2>0, <2>2
  <2>5. \A h \in n..(sz - 1) :
           /\ y.handles[h] \in Entries
           /\ y.handles[h].next = IF h = sz - 1 THEN End ELSE h + 1
    <3> SUFFICES ASSUME NEW h \in n..(sz - 1)
                 PROVE  /\ y.handles[h] \in Entries
                        /\ y.handles[h].next = IF h = sz - 1 THEN End ELSE h + 1
      OBVIOUS
    <3> DEFINE k == IF h = sz - 1 THEN End ELSE h + 1
    <3> HIDE DEF k
    <3>1. k \in Int
      BY <1>0, <2>0 DEF k, End
    <3>2. y.handles[h] = Entry(NoObj, k)
      BY <2>4 DEF k
    <3>3. y.handles[h] \in Entries /\ y.handles[h].next = k
      BY <3>1, <3>2, EntryIs
    <3> QED
      BY <3>3 DEF k
  <2>6. \A h \in 0..(n - 1) : y.handles[h] \in Entries
    BY <1>0, <2>3 DEF IsCtx, n
  <2>7. IsCtx(y)
    <3>1. y = Ctx(y.handles, y.nhandles, y.nused, y.first, y.last)
      BY <2>1, <2>2
    <3>2. \A h \in 0..(sz - 1) : y.handles[h] \in Entries
      BY <1>0, <2>0, <2>5, <2>6
    <3>3. y.handles \in [0..(sz - 1) -> Entries]
      BY <2>2, <3>2
    <3> QED
      BY <1>0, <2>0, <2>2, <3>1, <3>3 DEF IsCtx
  <2>8. UsedIn(y) = UsedIn(x)
    <3>1. \A h \in n..(sz - 1) : y.handles[h].next # Used
      BY <1>0, <2>0, <2>5 DEF Used, End
    <3>2. UsedIn(y) = {h \in 0..(sz - 1) : y.handles[h].next = Used}
      BY <2>2 DEF UsedIn
    <3>3. UsedIn(x) = {h \in 0..(n - 1) : x.handles[h].next = Used}
      BY DEF UsedIn, n
    <3>4. \A h \in 0..(sz - 1) : h \in 0..(n - 1) \/ h \in n..(sz - 1)
      BY <1>0, <2>0
    <3> QED
      BY <2>3, <3>1, <3>2, <3>3, <3>4
  <2>9. /\ p \in Seq(0..(sz - 1)) /\ Len(p) = sz - n
        /\ \A i \in 1..(sz - n) : p[i] = n + i - 1
    <3>1. p = [i \in 1..(sz - n) |-> n + i - 1]
      BY <1>2, <2>2 DEF GrownPool, y, p, n
    <3>2. \A i \in 1..(sz - n) : n + i - 1 \in 0..(sz - 1)
      BY <1>0, <2>0
    <3> QED
      BY <2>0, <3>1, <3>2
  <2>10. p # <<>>
    BY <2>0, <2>9
  <2>11. ListIs(y, p)
    <3>1. NoDup(p)
      BY <1>0, <2>0, <2>9 DEF NoDup
    <3>2. Head(p) = n /\ p[Len(p)] = sz - 1
      BY <1>0, <2>0, <2>9, <2>10
    <3>3. \A i \in 1..Len(p) :
             y.handles[p[i]].next = IF i = Len(p) THEN End ELSE p[i + 1]
      <4> SUFFICES ASSUME NEW i \in 1..(sz - n)
                   PROVE  y.handles[p[i]].next = IF i = sz - n THEN End ELSE p[i + 1]
        BY <2>9
      <4>1. p[i] = n + i - 1 /\ p[i] \in n..(sz - 1)
        BY <1>0, <2>0, <2>9
      <4>2. i # sz - n => p[i + 1] = n + i
        BY <1>0, <2>0, <2>9
      <4> QED
        BY <1>0, <2>0, <2>5, <4>1, <4>2
    <3> QED
      BY <2>2, <2>9, <2>10, <3>1, <3>2, <3>3 DEF ListIs
  <2>12. Counted(y, p)
    BY <1>0, <1>2, <2>0, <2>2, <2>8, <2>9 DEF Counted, Full, n
  <2>13. EntriesOK(y)
    <3>1. \A h \in UsedIn(x) : h \in 0..(n - 1)
      BY DEF UsedIn, n
    <3> QED
      BY <1>0, <2>3, <2>8, <3>1 DEF EntriesOK
  <2> QED
    BY <1>0, <2>0, <2>2, <2>3, <2>7, <2>8, <2>10, <2>11, <2>12, <2>13 DEF Table, y, p, n
<1> QED
  BY <1>1, <1>2

\* An entry on the list is not in use.
LEMMA ListedUnused ==
  ASSUME NEW x, NEW q, Table(x, q)
  PROVE  \A i \in 1..Len(q) : q[i] \in 0..(x.nhandles - 1) /\ q[i] \notin UsedIn(x)
<1> DEFINE D == 0..(x.nhandles - 1)
<1>1. q \in Seq(D) /\ x.nhandles \in Nat /\ Len(q) \in Nat
  BY DEF Table, IsCtx, ListIs
<1> SUFFICES ASSUME NEW i \in 1..Len(q)
             PROVE  q[i] \in D /\ q[i] \notin UsedIn(x)
  OBVIOUS
<1>2. q[i] \in D
  BY <1>1
<1>3. i # Len(q) => q[i + 1] \in D
  BY <1>1
<1>4. x.handles[q[i]].next = IF i = Len(q) THEN End ELSE q[i + 1]
  BY DEF Table, ListIs
<1>5. x.handles[q[i]].next # Used
  BY <1>1, <1>3, <1>4 DEF Used, End
<1> QED
  BY <1>2, <1>5 DEF UsedIn

\* The second half of dill_hmake: the head of the list is given to object o.
LEMMA PoppedTable ==
  ASSUME NEW x, NEW q, Table(x, q), q # <<>>, NEW o \in Objs
  PROVE  /\ x.first \in 0..(x.nhandles - 1) /\ x.first \notin UsedIn(x)
         /\ Table(Popped(x, o), Tail(q))
         /\ UsedIn(Popped(x, o)) = UsedIn(x) \cup {x.first}
         /\ Popped(x, o).handles[x.first].vfs = o
         /\ \A h \in 0..(x.nhandles - 1) :
               h # x.first => Popped(x, o).handles[h] = x.handles[h]
         /\ Popped(x, o).nhandles = x.nhandles
<1> DEFINE y == Popped(x, o)
           p == Tail(q)
           D == 0..(x.nhandles - 1)
           f == x.first
<1> HIDE DEF y, p, D, f
<1>0. /\ IsCtx(x) /\ ListIs(x, q) /\ Counted(x, q) /\ EntriesOK(x)
      /\ x.nhandles \in Nat /\ x.nused \in Nat /\ Reserve \in Nat
      /\ q \in Seq(D) /\ Len(q) \in Nat /\ Len(q) >= 1
      /\ x.handles \in [D -> Entries]
  BY HandleAssumption DEF Table, IsCtx, ListIs, D
<1>1. \A i \in 1..Len(q) : q[i] \in D /\ q[i] \notin UsedIn(x)
  BY ListedUnused DEF D
<1>2. f = q[1] /\ f \in D /\ f \notin UsedIn(x)
  BY <1>0, <1>1 DEF ListIs, f
<1>3. /\ p \in Seq(D) /\ Len(p) = Len(q) - 1
      /\ \A i \in 1..Len(p) : p[i] = q[i + 1]
  BY <1>0 DEF p
<1>4. y = Ctx([x.handles EXCEPT ![f] = Entry(o, Used)],
              x.nhandles, x.nused + 1, x.handles[f].next, x.last)
  BY DEF Popped, y, f
<1>5. /\ y.handles = [x.handles EXCEPT ![f] = Entry(o, Used)]
      /\ y.nhandles = x.nhandles /\ y.nused = x.nused + 1
      /\ y.first = x.handles[f].next /\ y.last = x.last
  BY <1>4 DEF Ctx
<1>6. /\ Entry(o, Used) \in Entries /\ Entry(o, Used).vfs = o
      /\ Entry(o, Used).next = Used /\ Entry(o, Used).ptr = NoObj
  BY EntryIs DEF Used
<1>7. y.handles[f] = Entry(o, Used) /\ \A h \in D : h # f => y.handles[h] = x.handles[h]
  BY <1>0, <1>2, <1>5
<1>8. IsCtx(y)
  <2>1. y = Ctx(y.handles, y.nhandles, y.nused, y.first, y.last)
    BY <1>4, <1>5
  <2>2. y.handles \in [D -> Entries]
    BY <1>0, <1>5, <1>6
  <2>3. y.last \in -1..(y.nhandles - 1) /\ y.nused \in Nat
    BY <1>0, <1>5 DEF IsCtx
  <2> QED
    BY <1>0, <1>5, <2>1, <2>2, <2>3 DEF IsCtx, D
<1>9. UsedIn(y) = UsedIn(x) \cup {f}
  <2>1. UsedIn(y) = {h \in D : y.handles[h].next = Used}
    BY <1>5 DEF UsedIn, D
  <2>2. UsedIn(x) = {h \in D : x.handles[h].next = Used}
    BY DEF UsedIn, D
  <2> QED
    BY <1>2, <1>6, <1>7, <2>1, <2>2
<1>10. ListIs(y, p)
  <2>1. NoDup(p)
    BY <1>0, RangeTail DEF ListIs, p
  <2>2. \A i \in 1..Len(p) : p[i] # f
    BY <1>0, <1>2, <1>3 DEF ListIs, NoDup
  <2>3. \A i \in 1..Len(p) :
           y.handles[p[i]].next = IF i = Len(p) THEN End ELSE p[i + 1]
    <3> SUFFICES ASSUME NEW i \in 1..Len(p)
                 PROVE  y.handles[p[i]].next = IF i = Len(p) THEN End ELSE p[i + 1]
      OBVIOUS
    <3>1. p[i] = q[i + 1] /\ p[i] \in D /\ i + 1 \in 1..Len(q)
      BY <1>0, <1>3
    <3>2. y.handles[p[i]] = x.handles[q[i + 1]]
      BY <1>7, <2>2, <3>1
    <3>3. x.handles[q[i + 1]].next = IF i + 1 = Len(q) THEN End ELSE q[i + 2]
      BY <1>0, <3>1 DEF ListIs
    <3>4. i # Len(p) => p[i + 1] = q[i + 2]
      BY <1>0, <1>3
    <3> QED
      BY <1>0, <1>3, <3>2, <3>3, <3>4
  <2>4. y.first = IF p = <<>> THEN End ELSE Head(p)
    <3>0. 1 \in 1..Len(q) /\ 1 + 1 = 2
      BY <1>0
    <3>1. x.handles[q[1]].next = IF 1 = Len(q) THEN End ELSE q[2]
      <4>1. x.handles[q[1]].next = IF 1 = Len(q) THEN End ELSE q[1 + 1]
        BY <1>0, <3>0, Zenon DEF ListIs
      <4> QED
        BY <3>0, <4>1
    <3>2. p = <<>> <=> Len(q) = 1
      BY <1>0, <1>3
    <3>3. p # <<>> => Head(p) = q[2]
      BY <1>0, <1>3
    <3> QED
      BY <1>2, <1>5, <3>1, <3>2, <3>3
  <2>5. p # <<>> => y.last = p[Len(p)]
    <3>1. x.last = q[Len(q)]
      BY <1>0 DEF ListIs
    <3>2. p # <<>> => p[Len(p)] = q[Len(q)]
      BY <1>0, <1>3
    <3> QED
      BY <1>5, <3>1, <3>2
  <2> QED
    BY <1>3, <1>5, <2>1, <2>3, <2>4, <2>5 DEF ListIs, D
<1>11. Counted(y, p)
  <2>1. Cardinality(UsedIn(y)) = Cardinality(UsedIn(x)) + 1
    BY <1>0, <1>2, <1>9, UsedFinite, FS_AddElement
  <2> QED
    BY <1>0, <1>3, <1>5, <2>1 DEF Counted
<1>12. EntriesOK(y)
  <2>1. \A h \in UsedIn(x) : h \in D /\ h # f
    BY <1>2 DEF UsedIn, D
  <2> QED
    BY <1>0, <1>6, <1>7, <1>9, <2>1 DEF EntriesOK
<1> QED
  BY <1>2, <1>5, <1>6, <1>7, <1>8, <1>9, <1>10, <1>11, <1>12 DEF Table, y, p, D, f

\* The end of dill_hclose and dill_hown: an entry in use goes to the end of the
\* list, and the other entries in use are as before.
LEMMA ReleasedTable ==
  ASSUME NEW x, NEW q, Table(x, q), NEW h \in UsedIn(x)
  PROVE  /\ Table(Released(x, h, TRUE), Append(q, h))
         /\ UsedIn(Released(x, h, TRUE)) = UsedIn(x) \ {h}
         /\ \A k \in UsedIn(x) :
               k # h => Released(x, h, TRUE).handles[k] = x.handles[k]
         /\ Released(x, h, TRUE).nhandles = x.nhandles
<1> DEFINE z == Marked(x, h)
           y == Released(x, h, TRUE)
           p == Append(q, h)
           D == 0..(x.nhandles - 1)
           e == Unused(x.handles[h])
           l == x.last
<1> HIDE DEF z, y, p, D, e, l
<1>0. /\ IsCtx(x) /\ ListIs(x, q) /\ Counted(x, q) /\ EntriesOK(x)
      /\ x.nhandles \in Nat /\ x.nused \in Nat /\ Reserve \in Nat
      /\ q \in Seq(D) /\ Len(q) \in Nat
      /\ x.handles \in [D -> Entries]
      /\ h \in D
  BY HandleAssumption DEF Table, IsCtx, ListIs, UsedIn, D
<1>1. \A i \in 1..Len(q) : q[i] \in D /\ q[i] \notin UsedIn(x) /\ q[i] # h
  BY ListedUnused DEF D
<1>2. e \in Entries /\ e.next = End /\ e.vfs = x.handles[h].vfs
  <2>1. x.handles[h] \in Entries
    BY <1>0
  <2> QED
    BY <2>1 DEF Unused, Entries, End, e
<1>3. z = Ctx([x.handles EXCEPT ![h] = e], x.nhandles, x.nused, x.first, l)
  BY DEF Marked, z, e, l
<1>4. /\ z.handles = [x.handles EXCEPT ![h] = e]
      /\ z.nhandles = x.nhandles /\ z.nused = x.nused
      /\ z.first = x.first /\ z.last = l
  BY <1>3 DEF Ctx
<1>5. y = Linked(z, h)
  BY DEF Released, y, z
<1>6. /\ p \in Seq(D) /\ Len(p) = Len(q) + 1 /\ p # <<>>
      /\ p[Len(q) + 1] = h /\ \A i \in 1..Len(q) : p[i] = q[i]
  BY <1>0 DEF p
<1>7. NoDup(p)
  <2>1. h \notin Range(q)
    BY <1>0, <1>1, RangeDef
  <2>2. NoDup(q)
    BY <1>0 DEF ListIs
  <2>3. /\ Append(q, h) = q \o <<h>>
        /\ NoDup(q) /\ h \notin Range(q) => NoDup(q \o <<h>>)
    BY <1>0, RangePush
  <2> QED
    BY <2>1, <2>2, <2>3 DEF p
<1>8. q = <<>> <=> x.first = End
  <2>1. q # <<>> => Head(q) = q[1] /\ 1 \in 1..Len(q)
    BY <1>0
  <2>2. q # <<>> => Head(q) # End
    BY <1>0, <1>1, <2>1 DEF End, D
  <2> QED
    BY <1>0, <2>2 DEF ListIs
\* What remains is shown from what the two branches of Linked have in common.
<1>9. /\ y = Ctx(y.handles, x.nhandles, x.nused - 1,
                 IF q = <<>> THEN h ELSE x.first, h)
      /\ y.handles \in [D -> Entries]
      /\ y.handles[h] = e
      /\ q # <<>> => y.handles[q[Len(q)]].next = h
      /\ \A k \in D : k # h /\ (q # <<>> => k # q[Len(q)])
                      => y.handles[k] = x.handles[k]
  <2>1. CASE q = <<>>
    <3>1. y = Ctx(z.handles, x.nhandles, x.nused - 1, h, h)
      BY <1>4, <1>5, <1>8, <2>1 DEF Linked
    <3>2. y.handles = z.handles
      BY <3>1 DEF Ctx
    <3> QED
      BY <1>0, <1>2, <1>4, <2>1, <3>1, <3>2
  <2>2. CASE q # <<>>
    <3>1. l = q[Len(q)] /\ l \in D /\ l # h
      BY <1>0, <1>1, <2>2 DEF ListIs, l
    <3> DEFINE g == [z.handles[l] EXCEPT !.next = h]
    <3> HIDE DEF g
    <3>2. y = Ctx([z.handles EXCEPT ![l] = g],
                  x.nhandles, x.nused - 1, x.first, h)
      BY <1>4, <1>5, <1>8, <2>2 DEF Linked, g
    <3>3. y.handles = [z.handles EXCEPT ![l] = g]
      BY <3>2 DEF Ctx
    <3>4. z.handles \in [D -> Entries] /\ z.handles[l] = x.handles[l]
      BY <1>0, <1>2, <1>4, <3>1
    <3>5. g \in Entries /\ g.next = h
      <4>1. z.handles[l] \in Entries /\ h \in Int
        BY <1>0, <3>1, <3>4 DEF D
      <4> QED
        BY <4>1 DEF Entries, g
    <3>6. /\ y.handles \in [D -> Entries]
          /\ y.handles[l] = g
          /\ y.handles[h] = e
          /\ \A k \in D : k # h /\ k # l => y.handles[k] = x.handles[k]
      BY <1>0, <1>4, <3>1, <3>3, <3>4, <3>5
    <3> QED
      BY <2>2, <3>1, <3>2, <3>3, <3>5, <3>6
  <2> QED
    BY <2>1, <2>2
<1>10. /\ y.nhandles = x.nhandles /\ y.nused = x.nused - 1 /\ y.last = h
       /\ y.first = IF q = <<>> THEN h ELSE x.first
  BY <1>9 DEF Ctx
<1>11. \A k \in UsedIn(x) : k # h => y.handles[k] = x.handles[k] /\ k \in D
  <2>1. q # <<>> => q[Len(q)] \notin UsedIn(x)
    BY <1>0, <1>1
  <2>2. UsedIn(x) \subseteq D
    BY DEF UsedIn, D
  <2> QED
    BY <1>9, <2>1, <2>2
<1>12. UsedIn(y) = UsedIn(x) \ {h}
  <2>1. UsedIn(y) = {k \in D : y.handles[k].next = Used}
    BY <1>10 DEF UsedIn, D
  <2>2. UsedIn(x) = {k \in D : x.handles[k].next = Used}
    BY DEF UsedIn, D
  <2>3. y.handles[h].next # Used
    BY <1>2, <1>9 DEF End, Used
  <2>4. q # <<>> => y.handles[q[Len(q)]].next # Used /\ q[Len(q)] \notin UsedIn(x)
    BY <1>0, <1>1, <1>9 DEF Used, D
  <2> QED
    BY <1>9, <1>11, <2>1, <2>2, <2>3, <2>4
<1>13. Cardinality(UsedIn(y)) = Cardinality(UsedIn(x)) - 1
  BY <1>0, <1>12, UsedFinite, FS_RemoveElement
<1>14. Cardinality(UsedIn(x)) \in Nat /\ Cardinality(UsedIn(x)) # 0
  BY <1>0, UsedFinite, FS_EmptySet
<1>15. IsCtx(y)
  <2>1. y.nused \in Nat
    BY <1>0, <1>10, <1>14 DEF Counted
  <2>2. y.last \in -1..(y.nhandles - 1)
    BY <1>0, <1>10 DEF D
  <2>3. y = Ctx(y.handles, y.nhandles, y.nused, y.first, y.last)
    BY <1>9, <1>10
  <2> QED
    BY <1>0, <1>9, <1>10, <2>1, <2>2, <2>3 DEF IsCtx, D
<1>16. ListIs(y, p)
  <2>1. y.first = Head(p)
    <3>1. q = <<>> => Head(p) = h
      BY <1>0, <1>6
    <3>2. q # <<>> => Head(p) = Head(q)
      BY <1>0, <1>6
    <3> QED
      BY <1>0, <1>10, <3>1, <3>2 DEF ListIs
  <2>2. \A i \in 1..Len(p) :
           y.handles[p[i]].next = IF i = Len(p) THEN End ELSE p[i + 1]
    <3> SUFFICES ASSUME NEW i \in 1..Len(p)
                 PROVE  y.handles[p[i]].next = IF i = Len(p) THEN End ELSE p[i + 1]
      OBVIOUS
    <3>1. CASE i = Len(p)
      BY <1>0, <1>2, <1>6, <1>9, <3>1
    <3>2. CASE i = Len(q) /\ i # Len(p)
      <4>1. p[i] = q[Len(q)] /\ p[i + 1] = h /\ q # <<>>
        BY <1>0, <1>6, <3>2
      <4> QED
        BY <1>9, <3>2, <4>1
    <3>3. CASE i # Len(q) /\ i # Len(p)
      <4>1. i \in 1..Len(q) /\ i + 1 \in 1..Len(q)
        BY <1>0, <1>6, <3>3
      <4>2. p[i] = q[i] /\ p[i + 1] = q[i + 1]
        BY <1>6, <4>1
      <4>3. q[i] # q[Len(q)] /\ q # <<>>
        BY <1>0, <3>3, <4>1 DEF ListIs, NoDup
      <4>4. y.handles[q[i]] = x.handles[q[i]]
        BY <1>1, <1>9, <4>1, <4>3
      <4>5. x.handles[q[i]].next = q[i + 1]
        BY <1>0, <3>3, <4>1 DEF ListIs
      <4> QED
        BY <3>3, <4>2, <4>4, <4>5
    <3> QED
      BY <3>1, <3>2, <3>3
  <2> QED
    BY <1>0, <1>6, <1>7, <1>10, <2>1, <2>2 DEF ListIs, D
<1>17. Counted(y, p)
  BY <1>0, <1>6, <1>10, <1>13, <1>14 DEF Counted
<1>18. EntriesOK(y)
  BY <1>0, <1>11, <1>12 DEF EntriesOK
<1> QED
  BY <1>10, <1>11, <1>12, <1>15, <1>16, <1>17, <1>18 DEF Table, y, p

\* dill_hquery fills the cache of an entry in use.
LEMMA CachedTable ==
  ASSUME NEW x, NEW q, Table(x, q), NEW h \in UsedIn(x), NEW t \in Types
  PROVE  LET y == [x EXCEPT !.handles = [@ EXCEPT ![h] = Cached(x.handles[h], t)]] IN
         /\ Table(y, q)
         /\ UsedIn(y) = UsedIn(x)
         /\ \A k \in UsedIn(x) : y.handles[k].vfs = x.handles[k].vfs
         /\ y.nhandles = x.nhandles
<1> DEFINE e == Cached(x.handles[h], t)
           a == [x.handles EXCEPT ![h] = e]
           y == [x EXCEPT !.handles = a]
           D == 0..(x.nhandles - 1)
<1> HIDE DEF e, a, D
<1>0. /\ IsCtx(x) /\ ListIs(x, q) /\ Counted(x, q) /\ EntriesOK(x)
      /\ x.nhandles \in Nat /\ x.nused \in Nat
      /\ x.handles \in [D -> Entries]
      /\ h \in D /\ UsedIn(x) \subseteq D
  BY DEF Table, IsCtx, UsedIn, D
<1>1. /\ e \in Entries /\ e.next = x.handles[h].next /\ e.vfs = x.handles[h].vfs
      /\ e.type = t /\ e.ptr = <<e.vfs, t>>
  <2>1. x.handles[h] \in Entries /\ x.handles[h].vfs \in Objs
    BY <1>0 DEF EntriesOK
  <2> QED
    BY <2>1 DEF Cached, Entries, e
<1>2. y = Ctx(a, x.nhandles, x.nused, x.first, x.last)
  <2>1. x = Ctx(x.handles, x.nhandles, x.nused, x.first, x.last)
    BY <1>0 DEF IsCtx
  <2> QED
    BY <2>1 DEF Ctx
<1> HIDE DEF y
<1>3. /\ y.handles = a /\ y.nhandles = x.nhandles /\ y.nused = x.nused
      /\ y.first = x.first /\ y.last = x.last
  BY <1>2 DEF Ctx
<1>4. /\ a \in [D -> Entries] /\ a[h] = e
      /\ \A k \in D : k # h => a[k] = x.handles[k]
  BY <1>0, <1>1 DEF a
<1>5. \A k \in D : y.handles[k].next = x.handles[k].next /\ y.handles[k].vfs = x.handles[k].vfs
  BY <1>1, <1>3, <1>4
<1>6. IsCtx(y)
  <2>1. y = Ctx(y.handles, y.nhandles, y.nused, y.first, y.last)
    BY <1>2, <1>3
  <2> QED
    BY <1>0, <1>3, <1>4, <2>1 DEF IsCtx, D
<1>7. UsedIn(y) = UsedIn(x)
  BY <1>3, <1>5 DEF UsedIn, D
<1>8. ListIs(y, q)
  <2>1. \A i \in 1..Len(q) : q[i] \in D
    BY <1>0 DEF ListIs, D
  <2> QED
    BY <1>0, <1>3, <1>5, <2>1 DEF ListIs
<1>9. Counted(y, q)
  BY <1>0, <1>3, <1>7 DEF Counted
<1>10. EntriesOK(y)
  <2> SUFFICES ASSUME NEW k \in UsedIn(x)
               PROVE  /\ y.handles[k].vfs \in Objs
                      /\ y.handles[k].ptr # NoObj
                           => y.handles[k].ptr = <<y.handles[k].vfs, y.handles[k].type>>
    BY <1>7 DEF EntriesOK
  <2>1. CASE k = h
    BY <1>0, <1>1, <1>3, <1>4, <2>1 DEF EntriesOK
  <2>2. CASE k # h
    BY <1>0, <1>3, <1>4, <2>2 DEF EntriesOK
  <2> QED
    BY <2>1, <2>2
<1> QED
  BY <1>0, <1>3, <1>5, <1>6, <1>7, <1>8, <1>9, <1>10 DEF Table, y, a, e

-----------------------------------------------------------------------------
(***************************************************************************)
(* The operations.                                                         *)
(***************************************************************************)

\* The empty table.
LEMMA InitHInv == Init => HInv
<1> SUFFICES ASSUME Init PROVE HInv
  OBVIOUS
<1>0. Reserve \in Nat
  BY HandleAssumption
<1>1. /\ ctx.nhandles = 0 /\ ctx.nused = 0 /\ ctx.first = End /\ ctx.last = End
      /\ ctx.handles = [h \in {} |-> Entry(NoObj, End)]
      /\ ctx = Ctx(ctx.handles, ctx.nhandles, ctx.nused, ctx.first, ctx.last)
  BY DEF Init, Ctx
<1>2. UsedIn(ctx) = {} /\ Cardinality({}) = 0
  BY <1>1, FS_EmptySet DEF UsedIn
<1>3. IsCtx(ctx)
  <2>1. 0..(ctx.nhandles - 1) = {}
    BY <1>1
  <2> QED
    BY <1>1, <2>1 DEF IsCtx, End
<1>4. ListIs(ctx, pool)
  BY <1>1 DEF ListIs, Init, NoDup
<1>5. Counted(ctx, pool)
  <2>1. Len(pool) = 0
    BY DEF Init
  <2> QED
    BY <1>0, <1>1, <1>2, <2>1 DEF Counted
<1>6. EntriesOK(ctx)
  BY <1>2 DEF EntriesOK
<1>7. Holders
  BY <1>2 DEF Holders, Init, End
<1> QED
  BY <1>3, <1>4, <1>5, <1>6, <1>7 DEF HInv, Table

\* Taking a number from the list of x, the table as the expansion left it.
LEMMA TakeNumber ==
  ASSUME HInv, NEW o \in Objs
  PROVE  LET x == Grown(ctx)
             q == GrownPool(ctx, pool)
         IN /\ q # <<>>
            /\ x.first \in DOMAIN x.handles
            /\ x.first \in Int /\ x.first # End /\ x.first \notin UsedIn(ctx)
            /\ Table(Popped(x, o), Tail(q))
            /\ UsedIn(Popped(x, o)) = UsedIn(ctx) \cup {x.first}
            /\ Popped(x, o).handles[x.first].vfs = o
            /\ \A h \in UsedIn(ctx) : Popped(x, o).handles[h] = ctx.handles[h]
<1> DEFINE x == Grown(ctx)
           q == GrownPool(ctx, pool)
<1> HIDE DEF x, q
<1>1. /\ Table(x, q) /\ q # <<>> /\ UsedIn(x) = UsedIn(ctx)
      /\ \A h \in 0..(ctx.nhandles - 1) : x.handles[h] = ctx.handles[h]
      /\ x.nhandles >= ctx.nhandles
  BY GrownTable DEF HInv, x, q
<1>2. /\ x.first \in 0..(x.nhandles - 1) /\ x.first \notin UsedIn(x)
      /\ Table(Popped(x, o), Tail(q))
      /\ UsedIn(Popped(x, o)) = UsedIn(x) \cup {x.first}
      /\ Popped(x, o).handles[x.first].vfs = o
      /\ \A h \in 0..(x.nhandles - 1) :
            h # x.first => Popped(x, o).handles[h] = x.handles[h]
  BY <1>1, PoppedTable
<1>3. DOMAIN x.handles = 0..(x.nhandles - 1) /\ x.nhandles \in Nat
  BY <1>1 DEF Table, IsCtx
<1>4. x.first \in Int /\ x.first # End
  BY <1>2, <1>3 DEF End
<1>5. \A h \in UsedIn(ctx) : h \in 0..(ctx.nhandles - 1) /\ h \in 0..(x.nhandles - 1)
  BY <1>1 DEF UsedIn
<1>6. \A h \in UsedIn(ctx) : Popped(x, o).handles[h] = ctx.handles[h]
  BY <1>1, <1>2, <1>5
<1> QED
  BY <1>1, <1>2, <1>3, <1>4, <1>6 DEF x, q

\* While a close function is suspended the array stays where it is.
LEMMA NothingMoved ==
  ASSUME HInv, Steady, Realloc(ctx)
  PROVE  moved' = {}
BY DEF HInv, Holders, Steady, Realloc

\* dill_hmake.
LEMMA HmakeHInv ==
  ASSUME HInv, Steady, NEW o \in Objs, Hmake(o)
  PROVE  HInv'
<1> DEFINE x == Grown(ctx)
           q == GrownPool(ctx, pool)
           f == x.first
           y == Popped(x, o)
<1> HIDE DEF x, q, f, y
<1>1. /\ q # <<>> /\ f \in DOMAIN x.handles
      /\ f \in Int /\ f # End /\ f \notin UsedIn(ctx)
      /\ Table(y, Tail(q)) /\ UsedIn(y) = UsedIn(ctx) \cup {f}
      /\ y.handles[f].vfs = o
      /\ \A h \in UsedIn(ctx) : y.handles[h] = ctx.handles[h]
  BY TakeNumber DEF x, q, f, y
<1>2. /\ ctx' = y /\ own' = [own EXCEPT ![o] = f] /\ pool' = Tail(q)
      /\ closing' = closing /\ oob' = oob /\ own[o] = End
  BY <1>1 DEF Hmake, x, q, f, y
<1>3. moved' = {}
  BY NothingMoved DEF Hmake
<1>4. Table(ctx, pool)'
  <2>1. Table(ctx', pool')
    BY <1>1, <1>2
  <2> QED
    BY <2>1 DEF Table, IsCtx, ListIs, Counted, EntriesOK, UsedIn
<1>5. UsedIn(ctx)' = UsedIn(ctx) \cup {f}
  BY <1>1, <1>2 DEF UsedIn
<1>6. Holders'
  <2>0. Holders
    BY DEF HInv
  <2>1. own' \in [Objs -> Int]
    BY <1>1, <1>2, <2>0 DEF Holders
  <2>2. \A p \in Objs : own'[p] = IF p = o THEN f ELSE own[p]
    BY <1>2, <2>0 DEF Holders
  <2>3. \A p \in Objs : own[p] # End => own[p] \in UsedIn(ctx)
    BY <2>0 DEF Holders
  <2>4. closing \subseteq UsedIn(ctx)
    BY <2>0 DEF Holders
  <2>5. UsedIn(ctx)' = closing' \cup {own'[p] : p \in {s \in Objs : own'[s] # End}}
    BY <1>1, <1>2, <1>5, <2>0, <2>2 DEF Holders
  <2>6. \A p \in Objs : own'[p] # End =>
           own'[p] \notin closing' /\ ctx'.handles[own'[p]].vfs = p
    BY <1>1, <1>2, <2>0, <2>2, <2>3, <2>4 DEF Holders
  <2>7. \A p, s \in Objs : own'[p] # End /\ own'[p] = own'[s] => p = s
    BY <1>1, <1>2, <2>0, <2>2, <2>3 DEF Holders
  <2> QED
    BY <1>2, <1>3, <2>0, <2>1, <2>5, <2>6, <2>7 DEF Holders
<1> QED
  BY <1>4, <1>6 DEF HInv

\* A number that an object is known by, and that is not being closed, is in use.
LEMMA OwnedUsed ==
  ASSUME HInv, NEW o \in Objs, Valid(own[o])
  PROVE  /\ own[o] # End /\ own[o] \in UsedIn(ctx) /\ own[o] \notin closing
         /\ ctx.handles[own[o]].vfs = o
<1>1. DOMAIN ctx.handles = 0..(ctx.nhandles - 1) /\ ctx.nhandles \in Nat
  BY DEF HInv, Table, IsCtx
<1>2. own[o] \in UsedIn(ctx) /\ own[o] # End
  BY <1>1 DEF Valid, UsedIn, End
<1> QED
  BY <1>2 DEF HInv, Holders

\* dill_hown.
LEMMA HownHInv ==
  ASSUME HInv, Steady, NEW o \in Objs, Hown(o)
  PROVE  HInv'
<1> DEFINE x == Grown(ctx)
           q == GrownPool(ctx, pool)
           f == x.first
           h == own[o]
           y == Popped(x, o)
           z == Released(y, h, TRUE)
<1> HIDE DEF x, q, f, h, y, z
<1>0. h # End /\ h \in UsedIn(ctx) /\ h \notin closing /\ ctx.handles[h].vfs = o
  BY OwnedUsed DEF Hown, h
<1>1. /\ q # <<>> /\ f \in DOMAIN x.handles
      /\ f \in Int /\ f # End /\ f \notin UsedIn(ctx)
      /\ Table(y, Tail(q)) /\ UsedIn(y) = UsedIn(ctx) \cup {f}
      /\ y.handles[f].vfs = o
      /\ \A k \in UsedIn(ctx) : y.handles[k] = ctx.handles[k]
  BY TakeNumber DEF x, q, f, y
<1>2. /\ Table(z, Append(Tail(q), h)) /\ UsedIn(z) = UsedIn(y) \ {h}
      /\ \A k \in UsedIn(y) : k # h => z.handles[k] = y.handles[k]
  BY <1>0, <1>1, ReleasedTable DEF z
<1>3. /\ ctx' = z /\ own' = [own EXCEPT ![o] = f] /\ pool' = Append(Tail(q), h)
      /\ closing' = closing /\ oob' = oob
  BY <1>0, <1>1 DEF Hown, x, q, f, h, y, z
<1>4. moved' = {}
  BY NothingMoved DEF Hown
<1>5. Table(ctx, pool)'
  <2>1. Table(ctx', pool')
    BY <1>2, <1>3
  <2> QED
    BY <2>1 DEF Table, IsCtx, ListIs, Counted, EntriesOK, UsedIn
<1>6. UsedIn(ctx)' = (UsedIn(ctx) \cup {f}) \ {h}
  BY <1>1, <1>2, <1>3 DEF UsedIn
<1>7. Holders'
  <2>0. Holders
    BY DEF HInv
  <2>1. own' \in [Objs -> Int]
    BY <1>1, <1>3, <2>0 DEF Holders
  <2>2. \A p \in Objs : own'[p] = IF p = o THEN f ELSE own[p]
    BY <1>3, <2>0 DEF Holders
  <2>3. \A p \in Objs : own[p] # End =>
           own[p] \in UsedIn(ctx) /\ own[p] # f /\ (p # o => own[p] # h)
    BY <1>0, <1>1, <2>0 DEF Holders, h
  <2>4. closing \subseteq UsedIn(ctx) /\ f \notin closing
    BY <1>1, <2>0 DEF Holders
  <2>5. UsedIn(ctx)' = closing' \cup {own'[p] : p \in {s \in Objs : own'[s] # End}}
    BY <1>0, <1>1, <1>3, <1>6, <2>0, <2>2, <2>3, <2>4 DEF Holders, h
  <2>6. \A p \in Objs : own'[p] # End =>
           own'[p] \notin closing' /\ ctx'.handles[own'[p]].vfs = p
    <3>1. z.handles[f].vfs = o
      BY <1>0, <1>1, <1>2
    <3>2. \A k \in UsedIn(ctx) : k # h => z.handles[k] = ctx.handles[k]
      BY <1>1, <1>2
    <3> QED
      BY <1>3, <2>0, <2>2, <2>3, <2>4, <3>1, <3>2 DEF Holders
  <2>7. \A p, s \in Objs : own'[p] # End /\ own'[p] = own'[s] => p = s
    BY <1>1, <1>3, <2>0, <2>2, <2>3 DEF Holders
  <2> QED
    BY <1>3, <1>4, <2>0, <2>1, <2>5, <2>6, <2>7 DEF Holders
<1> QED
  BY <1>5, <1>7 DEF HInv

\* dill_hclose of an object that closes at once.
LEMMA HcloseHInv ==
  ASSUME HInv, NEW o \in Objs, Hclose(o)
  PROVE  HInv'
<1> DEFINE h == own[o]
           z == Released(ctx, h, TRUE)
<1> HIDE DEF h, z
<1>0. h # End /\ h \in UsedIn(ctx) /\ h \notin closing /\ ctx.handles[h].vfs = o
  BY OwnedUsed DEF Hclose, h
<1>1. /\ Table(z, Append(pool, h)) /\ UsedIn(z) = UsedIn(ctx) \ {h}
      /\ \A k \in UsedIn(ctx) : k # h => z.handles[k] = ctx.handles[k]
  BY <1>0, ReleasedTable DEF HInv, z
<1>2. /\ ctx' = z /\ own' = [own EXCEPT ![o] = End] /\ pool' = Append(pool, h)
      /\ closing' = closing /\ moved' = moved /\ oob' = oob
  BY DEF Hclose, h, z
<1>3. Table(ctx, pool)'
  <2>1. Table(ctx', pool')
    BY <1>1, <1>2
  <2> QED
    BY <2>1 DEF Table, IsCtx, ListIs, Counted, EntriesOK, UsedIn
<1>4. UsedIn(ctx)' = UsedIn(ctx) \ {h}
  BY <1>1, <1>2 DEF UsedIn
<1>5. Holders'
  <2>0. Holders
    BY DEF HInv
  <2>1. own' \in [Objs -> Int]
    BY <1>2, <2>0 DEF Holders, End
  <2>2. \A p \in Objs : own'[p] = IF p = o THEN End ELSE own[p]
    BY <1>2, <2>0 DEF Holders
  <2>3. \A p \in Objs : own[p] # End =>
           own[p] \in UsedIn(ctx) /\ (p # o => own[p] # h)
    BY <1>0, <2>0 DEF Holders, h
  <2>4. UsedIn(ctx)' = closing' \cup {own'[p] : p \in {s \in Objs : own'[s] # End}}
    BY <1>0, <1>2, <1>4, <2>0, <2>2, <2>3 DEF Holders, h
  <2>5. \A p \in Objs : own'[p] # End =>
           own'[p] \notin closing' /\ ctx'.handles[own'[p]].vfs = p
    BY <1>1, <1>2, <2>0, <2>2, <2>3 DEF Holders
  <2>6. \A p, s \in Objs : own'[p] # End /\ own'[p] = own'[s] => p = s
    BY <1>2, <2>0, <2>2 DEF Holders
  <2> QED
    BY <1>2, <2>0, <2>1, <2>4, <2>5, <2>6 DEF Holders
<1> QED
  BY <1>3, <1>5 DEF HInv

\* dill_hclose up to a close function that suspends.
LEMMA HcloseBeginHInv ==
  ASSUME HInv, NEW o \in Objs, HcloseBegin(o)
  PROVE  HInv'
<1> DEFINE h == own[o]
<1> HIDE DEF h
<1>0. h # End /\ h \in UsedIn(ctx) /\ h \notin closing /\ ctx.handles[h].vfs = o
  BY OwnedUsed DEF HcloseBegin, h
<1>1. /\ ctx' = ctx /\ own' = [own EXCEPT ![o] = End] /\ pool' = pool
      /\ closing' = closing \cup {h} /\ moved' = moved /\ oob' = oob
      /\ SlowClose # {}
  BY DEF HcloseBegin, h
<1>2. Table(ctx, pool)'
  BY <1>1 DEF HInv, Table, IsCtx, ListIs, Counted, EntriesOK, UsedIn
<1>3. Holders'
  <2>0. Holders
    BY DEF HInv
  <2>1. own' \in [Objs -> Int]
    BY <1>1, <2>0 DEF Holders, End
  <2>2. \A p \in Objs : own'[p] = IF p = o THEN End ELSE own[p]
    BY <1>1, <2>0 DEF Holders
  <2>3. \A p \in Objs : own[p] # End /\ p # o => own[p] # h
    BY <1>0, <2>0 DEF Holders, h
  <2>4. UsedIn(ctx)' = closing' \cup {own'[p] : p \in {s \in Objs : own'[s] # End}}
    <3>1. UsedIn(ctx)' = UsedIn(ctx)
      BY <1>1 DEF UsedIn
    <3> QED
      BY <1>0, <1>1, <2>0, <2>2, <2>3, <3>1 DEF Holders, h
  <2>5. \A p \in Objs : own'[p] # End =>
           own'[p] \notin closing' /\ ctx'.handles[own'[p]].vfs = p
    BY <1>1, <2>0, <2>2, <2>3 DEF Holders
  <2>6. \A p, s \in Objs : own'[p] # End /\ own'[p] = own'[s] => p = s
    BY <1>1, <2>0, <2>2 DEF Holders
  <2> QED
    BY <1>1, <2>0, <2>1, <2>4, <2>5, <2>6 DEF Holders
<1> QED
  BY <1>2, <1>3 DEF HInv

\* dill_hclose when the close function has returned.
LEMMA HcloseEndHInv ==
  ASSUME HInv, NEW h \in closing, HcloseEnd(h)
  PROVE  HInv'
<1> DEFINE z == Released(ctx, h, TRUE)
<1> HIDE DEF z
<1>0. h \in UsedIn(ctx) /\ moved = {}
  BY DEF HInv, Holders
<1>1. /\ Table(z, Append(pool, h)) /\ UsedIn(z) = UsedIn(ctx) \ {h}
      /\ \A k \in UsedIn(ctx) : k # h => z.handles[k] = ctx.handles[k]
  BY <1>0, ReleasedTable DEF HInv, z
<1>2. /\ ctx' = z /\ own' = own /\ pool' = Append(pool, h)
      /\ closing' = closing \ {h} /\ moved' = {} /\ oob' = oob
  <2>1. h \notin moved
    BY <1>0
  <2>2. Released(ctx, h, h \notin moved) = z
    BY <2>1 DEF Released, z
  <2> QED
    BY <1>0, <2>2 DEF HcloseEnd
<1>3. Table(ctx, pool)'
  <2>1. Table(ctx', pool')
    BY <1>1, <1>2
  <2> QED
    BY <2>1 DEF Table, IsCtx, ListIs, Counted, EntriesOK, UsedIn
<1>4. UsedIn(ctx)' = UsedIn(ctx) \ {h}
  BY <1>1, <1>2 DEF UsedIn
<1>5. Holders'
  <2>0. Holders
    BY DEF HInv
  <2>1. \A p \in Objs : own[p] # End => own[p] \in UsedIn(ctx) /\ own[p] # h
    BY <2>0 DEF Holders
  <2>2. UsedIn(ctx)' = closing' \cup {own'[p] : p \in {s \in Objs : own'[s] # End}}
    BY <1>2, <1>4, <2>0, <2>1 DEF Holders
  <2>3. \A p \in Objs : own'[p] # End =>
           own'[p] \notin closing' /\ ctx'.handles[own'[p]].vfs = p
    BY <1>1, <1>2, <2>0, <2>1 DEF Holders
  <2> QED
    BY <1>2, <2>0, <2>2, <2>3 DEF Holders
<1> QED
  BY <1>3, <1>5 DEF HInv

\* dill_hquery.
LEMMA HqueryHInv ==
  ASSUME HInv, NEW h \in DOMAIN ctx.handles, NEW type \in Types, Hquery(h, type)
  PROVE  HInv'
<1> DEFINE z == [ctx EXCEPT !.handles = [@ EXCEPT ![h] = Cached(ctx.handles[h], type)]]
<1> HIDE DEF z
<1>0. h \in UsedIn(ctx)
  <2>1. DOMAIN ctx.handles = 0..(ctx.nhandles - 1)
    BY DEF HInv, Table, IsCtx
  <2> QED
    BY <2>1 DEF Hquery, Valid, UsedIn
<1>1. UNCHANGED <<own, closing, moved, oob, pool>> /\ (ctx' = ctx \/ ctx' = z)
  BY DEF Hquery, z
<1>2. CASE ctx' = ctx
  <2>1. Table(ctx, pool) /\ Holders
    BY DEF HInv
  <2>2. Table(ctx, pool)'
    BY <1>1, <1>2, <2>1 DEF Table, IsCtx, ListIs, Counted, EntriesOK, UsedIn
  <2>3. Holders'
    BY <1>1, <1>2, <2>1 DEF Holders, UsedIn
  <2> QED BY <1>1, <2>2, <2>3 DEF HInv
<1>3. CASE ctx' = z
  <2>1. /\ Table(z, pool) /\ UsedIn(z) = UsedIn(ctx)
        /\ \A k \in UsedIn(ctx) : z.handles[k].vfs = ctx.handles[k].vfs
    BY <1>0, CachedTable DEF HInv, z
  <2>2. Table(ctx, pool)'
    <3>1. Table(ctx', pool')
      BY <1>1, <1>3, <2>1
    <3> QED
      BY <3>1 DEF Table, IsCtx, ListIs, Counted, EntriesOK, UsedIn
  <2>3. UsedIn(ctx)' = UsedIn(ctx)
    BY <1>3, <2>1 DEF UsedIn
  <2>4. Holders'
    <3>0. Holders
      BY DEF HInv
    <3>1. \A p \in Objs : own[p] # End => own[p] \in UsedIn(ctx)
      BY <3>0 DEF Holders
    <3>2. \A p \in Objs : own[p] # End => ctx'.handles[own[p]].vfs = p
      BY <1>3, <2>1, <3>0, <3>1 DEF Holders
    <3> QED
      BY <1>1, <2>3, <3>0, <3>2 DEF Holders
  <2> QED
    BY <2>2, <2>4 DEF HInv
<1> QED
  BY <1>1, <1>2, <1>3

-----------------------------------------------------------------------------
(***************************************************************************)
(* The theorems.                                                           *)
(***************************************************************************)

\* Every step keeps the invariant.
LEMMA NextHInv == HInv /\ Steady /\ [Next]_vars => HInv'
<1> SUFFICES ASSUME HInv, Steady, [Next]_vars PROVE HInv'
  OBVIOUS
<1>1. ASSUME NEW o \in Objs, Hmake(o) PROVE HInv'
  BY <1>1, HmakeHInv
<1>2. ASSUME NEW o \in Objs, Hown(o) PROVE HInv'
  BY <1>2, HownHInv
<1>3. ASSUME NEW o \in Objs, Hclose(o) PROVE HInv'
  BY <1>3, HcloseHInv
<1>4. ASSUME NEW o \in Objs, HcloseBegin(o) PROVE HInv'
  BY <1>4, HcloseBeginHInv
<1>5. ASSUME NEW h \in closing, HcloseEnd(h) PROVE HInv'
  BY <1>5, HcloseEndHInv
<1>6. ASSUME NEW h \in DOMAIN ctx.handles, NEW type \in Types, Hquery(h, type)
      PROVE  HInv'
  BY <1>6, HqueryHInv
<1>7. CASE UNCHANGED vars
  BY <1>7 DEF vars, HInv, Holders, Table, IsCtx, ListIs, Counted, EntriesOK, UsedIn
<1> QED
  BY <1>1, <1>2, <1>3, <1>4, <1>5, <1>6, <1>7 DEF Next

\* The table is consistent in every reachable state, if the array is not moved
\* while a close function is suspended.
THEOREM HandleInvariance ==
  ASSUME Steady
  PROVE  Spec => []HInv
BY InitHInv, NextHInv, PTL DEF Spec

\* What the invariant says of the array, in the words of module Handle.
LEMMA HInvBasics ==
  ASSUME HInv
  PROVE  /\ ctx.nhandles \in Nat
         /\ DOMAIN ctx.handles = 0..(ctx.nhandles - 1)
         /\ ctx.handles \in [0..(ctx.nhandles - 1) -> Entries]
         /\ \A h \in DOMAIN ctx.handles : h \in UsedIn(ctx) <=> Valid(h)
         /\ UsedIn(ctx) \subseteq DOMAIN ctx.handles
         /\ pool \in Seq(DOMAIN ctx.handles) /\ DOMAIN pool = 1..Len(pool)
<1>1. /\ ctx.nhandles \in Nat
      /\ ctx.handles \in [0..(ctx.nhandles - 1) -> Entries]
      /\ pool \in Seq(0..(ctx.nhandles - 1))
  BY DEF HInv, Table, IsCtx, ListIs
<1>2. DOMAIN ctx.handles = 0..(ctx.nhandles - 1) /\ DOMAIN pool = 1..Len(pool)
  BY <1>1
<1> QED
  BY <1>1, <1>2 DEF UsedIn, Valid

\* The invariant implies the ranges.
LEMMA HInvTypeOK == HInv => TypeOK
<1> SUFFICES ASSUME HInv PROVE TypeOK
  OBVIOUS
<1> DEFINE D == DOMAIN ctx.handles
<1>0. /\ ctx.nhandles \in Nat /\ D = 0..(ctx.nhandles - 1)
      /\ ctx.handles \in [0..(ctx.nhandles - 1) -> Entries]
      /\ UsedIn(ctx) \subseteq D /\ pool \in Seq(D)
  BY HInvBasics
<1>1. ctx.nused \in 0..ctx.nhandles
  <2>1. IsCtx(ctx) /\ ctx.nused = Cardinality(UsedIn(ctx))
    BY DEF HInv, Table, Counted
  <2> QED
    BY <1>0, <2>1, UsedFinite
<1>2. ctx.last \in D \cup {End}
  BY <1>0 DEF HInv, Table, IsCtx, End
<1>3. ctx.first \in D \cup {End}
  <2>1. ctx.first = IF pool = <<>> THEN End ELSE Head(pool)
    BY DEF HInv, Table, ListIs
  <2>2. pool # <<>> => Head(pool) \in D
    BY <1>0
  <2> QED
    BY <2>1, <2>2
<1>4. own \in [Objs -> D \cup {End}] /\ closing \subseteq D
  BY <1>0 DEF HInv, Holders
<1>5. moved \subseteq closing /\ oob \in BOOLEAN
  BY DEF HInv, Holders
<1> QED
  BY <1>0, <1>1, <1>2, <1>3, <1>4, <1>5 DEF TypeOK, Entries

\* It implies that the list is the queue.
LEMMA HInvListIsPool == HInv => ListIsPool
BY HInvBasics DEF HInv, Table, ListIs, ListIsPool

\* It implies that numbers are exclusive.
LEMMA HInvHandlesExclusive == HInv => HandlesExclusive
<1> SUFFICES ASSUME HInv PROVE HandlesExclusive
  OBVIOUS
<1>1. \A o \in Objs : own[o] # End => own[o] \in UsedIn(ctx)
  BY DEF HInv, Holders
<1>2. \A h \in UsedIn(ctx) : Valid(h)
  BY HInvBasics
<1> QED
  BY <1>1, <1>2 DEF HInv, Holders, HandlesExclusive

\* It implies that what is marked as in use is in use.
LEMMA HInvUsedMeansInUse == HInv => UsedMeansInUse
<1> SUFFICES ASSUME HInv, NEW h \in DOMAIN ctx.handles, ctx.handles[h].next = Used
             PROVE  h \in closing \/ \E o \in Objs : own[o] = h
  BY DEF UsedMeansInUse
<1>1. h \in UsedIn(ctx)
  BY HInvBasics DEF Valid
<1> QED
  BY <1>1 DEF HInv, Holders

\* It implies that a number being closed stays taken.
LEMMA HInvClosingStaysTaken == HInv => ClosingStaysTaken
<1> SUFFICES ASSUME HInv, NEW h \in closing
             PROVE  /\ Valid(h) /\ \A i \in DOMAIN pool : pool[i] # h
                    /\ \A o \in Objs : own[o] # h
  BY DEF ClosingStaysTaken
<1>1. h \in UsedIn(ctx)
  BY DEF HInv, Holders
<1>2. Valid(h) /\ h # End
  <2>1. Valid(h)
    BY <1>1, HInvBasics
  <2>2. h \in 0..(ctx.nhandles - 1)
    BY <1>1 DEF UsedIn
  <2> QED
    BY <2>1, <2>2, HInvBasics DEF End
<1>3. \A i \in DOMAIN pool : pool[i] # h
  <2>1. \A i \in 1..Len(pool) : pool[i] \notin UsedIn(ctx)
    BY ListedUnused DEF HInv
  <2> QED
    BY <1>1, <2>1, HInvBasics
<1>4. \A o \in Objs : own[o] # h
  BY <1>2 DEF HInv, Holders
<1> QED
  BY <1>2, <1>3, <1>4

\* It implies that the cache is fresh.
LEMMA HInvCacheFresh == HInv => CacheFresh
<1> SUFFICES ASSUME HInv, NEW h \in DOMAIN ctx.handles, Valid(h),
                    ctx.handles[h].ptr # NoObj
             PROVE  ctx.handles[h].ptr = <<ctx.handles[h].vfs, ctx.handles[h].type>>
  BY DEF CacheFresh
<1>1. h \in UsedIn(ctx)
  BY HInvBasics
<1> QED
  BY <1>1 DEF HInv, Table, EntriesOK

\* It implies that the array was never left.
LEMMA HInvNeverOutOfBounds == HInv => NeverOutOfBounds
BY DEF HInv, Holders, NeverOutOfBounds

\* Every field of the table and every number keeps its range.
THEOREM HandleTypes ==
  ASSUME Steady
  PROVE  Spec => []TypeOK
BY HandleInvariance, HInvTypeOK, PTL

\* The list threaded through the array is always the queue of numbers that were
\* returned to it, through every expansion.
THEOREM FreeList ==
  ASSUME Steady
  PROVE  Spec => []ListIsPool
BY HandleInvariance, HInvListIsPool, PTL

\* A number the program holds leads to its object and to no other.
THEOREM NumbersExclusive ==
  ASSUME Steady
  PROVE  Spec => []HandlesExclusive
BY HandleInvariance, HInvHandlesExclusive, PTL

\* A number that was closed is not marked as in use.
THEOREM ClosedAreRejected ==
  ASSUME Steady
  PROVE  Spec => []UsedMeansInUse
BY HandleInvariance, HInvUsedMeansInUse, PTL

\* While hclose() is suspended nobody else is given the number.
THEOREM ClosingKeepsNumber ==
  ASSUME Steady
  PROVE  Spec => []ClosingStaysTaken
BY HandleInvariance, HInvClosingStaysTaken, PTL

\* hquery() never answers for an object that the number led to earlier.
THEOREM CacheCorrect ==
  ASSUME Steady
  PROVE  Spec => []CacheFresh
BY HandleInvariance, HInvCacheFresh, PTL

\* dill_hmake never takes an entry from an empty list, although an expansion
\* abandons the entries that were still on it.
THEOREM ListNeverEmpty ==
  ASSUME Steady
  PROVE  Spec => []NeverOutOfBounds
BY HandleInvariance, HInvNeverOutOfBounds, PTL

\* The table of handles is sound whatever the sizes it starts with and grows by,
\* and whichever close functions suspend.
THEOREM TableCorrect ==
  ASSUME Steady
  PROVE  Spec => []TableSound
BY HandleTypes, FreeList, NumbersExclusive, ClosingKeepsNumber, CacheCorrect, ListNeverEmpty, PTL
   DEF TableSound

-----------------------------------------------------------------------------
(***************************************************************************)
(* Stacks, for any number of them and any size of the cache.               *)
(***************************************************************************)

\* What StacksSafe needs to be inductive: the types of the cache and its counter.
StackInv ==
  /\ cache \in Seq(Stacks) /\ count \in Nat
  /\ held \subseteq Stacks /\ gone \in BOOLEAN
  /\ StacksSafe

\* dill_allocstack: a block leaves the cache for the coroutine, or is new.
LEMMA AllocStackInv ==
  ASSUME StackInv, NEW s \in Stacks, AllocStack(s) PROVE StackInv'
<1>1. CASE cache # <<>>
  <2>1. s = Head(cache) /\ cache' = Tail(cache) /\ count' = count - 1
    BY <1>1 DEF AllocStack
  <2>2. /\ Tail(cache) \in Seq(Stacks) /\ Range(Tail(cache)) \subseteq Range(cache)
        /\ NoDup(cache) => NoDup(Tail(cache)) /\ Head(cache) \notin Range(Tail(cache))
    BY <1>1, RangeTail DEF StackInv
  <2>3. Len(cache) \in Nat \ {0} /\ Len(Tail(cache)) = Len(cache) - 1
    BY <1>1 DEF StackInv
  <2> QED BY <2>1, <2>2, <2>3, StackAssumption
          DEF StackInv, StacksSafe, AllocStack, Executing
<1>2. CASE cache = <<>>
  <2>1. Range(<<>>) = {}
    BY DEF Range
  <2> QED BY <1>2, <2>1 DEF StackInv, StacksSafe, AllocStack, Executing
<1> QED BY <1>1, <1>2

\* dill_freestack: the block goes to the cache, whose newest block makes room
\* for it. That block is not the one in use, which is still held.
LEMMA FreeStackInv ==
  ASSUME StackInv, NEW s \in Stacks, FreeStack(s) PROVE StackInv'
<1> DEFINE k == Kept(s)
           y == <<s>>
<1>1. cache \in Seq(Stacks) /\ Len(cache) \in Nat /\ count = Len(cache)
  BY DEF StackInv, StacksSafe, FreeStack, Executing
<1>2. /\ k \in Seq(Stacks) /\ NoDup(k) /\ Range(k) \subseteq Range(cache)
      /\ Len(k) = IF count >= MaxCached THEN count - 1 ELSE count
  <2>1. CASE count >= MaxCached
    <3>1. cache # <<>>
      BY <1>1, <2>1, StackAssumption
    <3>2. k = Tail(cache)
      BY <2>1 DEF Kept
    <3> QED BY <1>1, <2>1, <3>1, <3>2, RangeTail DEF StackInv, StacksSafe
  <2>2. CASE ~(count >= MaxCached)
    BY <1>1, <2>2 DEF Kept, StackInv, StacksSafe
  <2> QED BY <2>1, <2>2
<1>3. y \in Seq(Stacks) /\ Range(y) = {s} /\ NoDup(y) /\ Len(y) = 1
  BY RangeSmall
<1>4. /\ cache' = y \o k /\ held' = held \ {s} /\ cpu' = cpu /\ gone' = gone
      /\ count' = (IF count >= MaxCached THEN count - 1 ELSE count) + 1
      /\ s \in held /\ (cpu = MainStack \/ cpu \in held) /\ ~gone
  BY DEF FreeStack, Executing
<1> HIDE DEF k, y
<1>5. s \notin Range(k)
  BY <1>2, <1>4 DEF StackInv, StacksSafe
<1>6. /\ cache' \in Seq(Stacks) /\ NoDup(cache') /\ Range(cache') = {s} \cup Range(k)
  BY <1>2, <1>3, <1>4, <1>5, RangeConcat
<1>7. Len(cache') = 1 + Len(k)
  <2>1. \A u, v \in Seq(Stacks) : Len(u \o v) = Len(u) + Len(v)
    OBVIOUS
  <2> QED BY <2>1, <1>2, <1>3, <1>4
<1>8. count' = Len(cache') /\ count' \in Nat /\ count' <= MaxCached
  BY <1>1, <1>2, <1>4, <1>7, StackAssumption DEF StackInv, StacksSafe
<1>9. cpu' \in held' \cup Range(cache') \cup {MainStack}
  BY <1>4, <1>6
<1>10. Range(cache') \cap held' = {}
  BY <1>2, <1>4, <1>6 DEF StackInv, StacksSafe
<1> QED BY <1>4, <1>6, <1>8, <1>9, <1>10 DEF StackInv, StacksSafe

LEMMA StackNextInv == StackInv /\ [StackNext]_stackVars => StackInv'
<1> SUFFICES ASSUME StackInv, [StackNext]_stackVars PROVE StackInv'
  OBVIOUS
<1>1. ASSUME NEW s \in Stacks, AllocStack(s) PROVE StackInv'
  BY <1>1, AllocStackInv
<1>2. ASSUME NEW s \in Stacks, FreeStack(s) PROVE StackInv'
  BY <1>2, FreeStackInv
<1>3. ASSUME NEW s \in Stacks \cup {MainStack}, Switch(s) PROVE StackInv'
  BY <1>3 DEF Switch, StackInv, StacksSafe
<1>4. CASE StackTerm
  <2>1. Range(<<>>) = {} /\ NoDup(<<>>)
    BY DEF Range, NoDup
  <2> QED BY <1>4, <2>1 DEF StackTerm, Executing, StackInv, StacksSafe
<1>5. CASE UNCHANGED stackVars
  BY <1>5 DEF stackVars, StackInv, StacksSafe
<1> QED BY <1>1, <1>2, <1>3, <1>4, <1>5 DEF StackNext

\* The processor never runs on a stack that was given back to the heap, and no
\* stack has two owners: for any number of stacks and coroutines, any size of
\* the cache, and however coroutines end or are canceled.
THEOREM StacksCorrect == StackSpec => []StacksSafe
<1>1. StackInit => StackInv
  <2>1. Range(<<>>) = {} /\ NoDup(<<>>) /\ <<>> \in Seq(Stacks) /\ Len(<<>>) = 0
    BY DEF Range, NoDup
  <2>2. 0 \in Nat /\ 0 <= MaxCached
    BY StackAssumption
  <2>3. ASSUME StackInit PROVE cache = <<>> /\ count = 0 /\ held = {} /\ cpu = MainStack /\ gone = FALSE
    BY <2>3 DEF StackInit
  <2> QED BY <2>1, <2>2, <2>3 DEF StackInv, StacksSafe
<1>2. StackInv => StacksSafe
  BY DEF StackInv
<1> QED BY <1>1, <1>2, StackNextInv, PTL DEF StackSpec

-----------------------------------------------------------------------------
(***************************************************************************)
(* The life of a context, for any number of threads and any order in which *)
(* they start to use the library and end.                                  *)
(***************************************************************************)

\* Which of the flags, keys and pointers of ctx.c agree. The value for dill_key
\* is of no use once exit() was called: pthreads runs no destructors then.
CtxInv ==
  /\ initialized \subseteq alive /\ alive \subseteq Threads
  /\ handlers \in Nat
  /\ fallback \in BOOLEAN /\ dill_main \in BOOLEAN /\ exiting \in BOOLEAN
  /\ ~failed
  /\ allocated = IF fallback THEN initialized ELSE {}
  /\ ~exiting => specific = initialized
  /\ dill_main <=> MainThread \in initialized
  /\ dill_main => handlers > 0

\* dill_getctx_: only a thread without a context makes one.
LEMMA GetCtxInv ==
  ASSUME CtxInv, NEW t \in Threads, GetCtx(t) PROVE CtxInv'
<1>1. t \in alive /\ t \notin initialized
  BY DEF GetCtx, MayCall, Ready, CtxInv
<1>2. ~failed'
  BY <1>1 DEF GetCtx
<1>3. /\ initialized' = initialized \cup {t} /\ specific' = specific \cup {t}
      /\ allocated' = IF fallback THEN allocated \cup {t} ELSE allocated
      /\ dill_main' = (dill_main \/ t = MainThread)
      /\ handlers' = IF t = MainThread THEN handlers + 1 ELSE handlers
      /\ fallback' = fallback /\ alive' = alive /\ exiting' = exiting
  BY DEF GetCtx
<1>4. handlers' \in Nat /\ (t = MainThread \/ handlers > 0 => handlers' > 0)
  BY <1>3 DEF CtxInv
<1>5. allocated' = IF fallback' THEN initialized' ELSE {}
  BY <1>3 DEF CtxInv
<1>6. dill_main' \in BOOLEAN /\ (dill_main' <=> MainThread \in initialized')
  BY <1>3 DEF CtxInv
<1>7. dill_main' => handlers' > 0
  BY <1>3, <1>4 DEF CtxInv
<1> QED BY <1>1, <1>2, <1>3, <1>4, <1>5, <1>6, <1>7 DEF CtxInv

\* dill_ctx_term of a context that exists: its assertions hold, and dill_main
\* is forgotten with the context of the main thread.
LEMMA TermFacts ==
  ASSUME CtxInv, NEW t \in initialized, Term(t)
  PROVE  /\ ~failed'
         /\ initialized' = initialized \ {t}
         /\ allocated' = IF fallback THEN initialized \ {t} ELSE {}
         /\ dill_main' \in BOOLEAN
         /\ dill_main' <=> MainThread \in initialized \ {t}
<1>1. ~failed'
  BY DEF Term, CtxInv
<1>2. initialized' = initialized \ {t} /\ allocated' = allocated \ {t}
        /\ dill_main' = (dill_main /\ t # MainThread)
  BY DEF Term
<1>3. allocated' = IF fallback THEN initialized \ {t} ELSE {}
  BY <1>2 DEF CtxInv
<1> QED BY <1>1, <1>2, <1>3 DEF CtxInv

\* The end of a thread.
LEMMA ThreadEndInv ==
  ASSUME CtxInv, NEW t \in Threads, ThreadEnd(t) PROVE CtxInv'
<1>1. /\ ~exiting /\ specific = initialized /\ alive' = alive \ {t}
      /\ specific' = specific \ {t}
      /\ fallback' = fallback /\ handlers' = handlers /\ exiting' = exiting
  BY DEF ThreadEnd, CtxInv
<1>2. CASE t \in specific
  <2>1. Term(t)
    BY <1>2 DEF ThreadEnd
  <2> QED BY <1>1, <1>2, <2>1, TermFacts DEF CtxInv
<1>3. CASE t \notin specific
  <2>1. UNCHANGED <<failed, initialized, allocated, dill_main>>
    BY <1>3 DEF ThreadEnd
  <2> QED BY <1>1, <1>3, <2>1 DEF CtxInv
<1> QED BY <1>2, <1>3

\* The exit handler: it finds the context of the main thread through dill_main.
LEMMA AtexitInv ==
  ASSUME CtxInv, Atexit PROVE CtxInv'
<1>1. /\ exiting /\ handlers > 0 /\ handlers' = handlers - 1
      /\ fallback' = fallback /\ specific' = specific /\ alive' = alive
      /\ exiting' = exiting
  BY DEF Atexit
<1>2. handlers' \in Nat
  BY <1>1 DEF CtxInv
<1>3. CASE dill_main
  <2>1. Term(MainThread) /\ MainThread \in initialized
    BY <1>3 DEF Atexit, CtxInv
  <2>2. ~dill_main'
    BY <2>1, TermFacts
  <2> QED BY <1>1, <1>2, <2>1, <2>2, TermFacts DEF CtxInv
<1>4. CASE ~dill_main
  <2>1. UNCHANGED <<failed, initialized, allocated, dill_main>>
    BY <1>4 DEF Atexit
  <2> QED BY <1>1, <1>2, <1>4, <2>1 DEF CtxInv
<1> QED BY <1>3, <1>4

LEMMA CtxNextInv == CtxInv /\ [CtxNext]_ctxVars => CtxInv'
<1> SUFFICES ASSUME CtxInv, [CtxNext]_ctxVars PROVE CtxInv'
  OBVIOUS
<1>1. ASSUME NEW t \in Threads, GetCtx(t) PROVE CtxInv'
  BY <1>1, GetCtxInv
<1>2. ASSUME NEW t \in Threads, ThreadEnd(t) PROVE CtxInv'
  BY <1>2, ThreadEndInv
<1>3. CASE Exit
  BY <1>3 DEF Exit, CtxInv
<1>4. CASE Atexit
  BY <1>4, AtexitInv
<1>5. CASE UNCHANGED ctxVars
  BY <1>5 DEF ctxVars, CtxInv
<1> QED BY <1>1, <1>2, <1>3, <1>4, <1>5 DEF CtxNext

\* Every context is destroyed once, by the destructor of its thread or by the
\* exit handler, and no assertion of ctx.c fails: in both variants of the
\* build, for any number of threads, and with exit handlers that use the
\* library again.
THEOREM ContextsCorrect == CtxSpec => []ContextsDestroyedOnce
<1>1. CtxInit => CtxInv
  <2> SUFFICES ASSUME CtxInit PROVE CtxInv
    OBVIOUS
  <2>1. 0 \in Nat /\ ~exiting /\ ~failed /\ ~dill_main
          /\ dill_main \in BOOLEAN /\ exiting \in BOOLEAN
    BY DEF CtxInit
  <2> QED BY <2>1 DEF CtxInit, CtxInv
<1>2. CtxInv => ContextsDestroyedOnce
  <2> SUFFICES ASSUME CtxInv PROVE ContextsDestroyedOnce
    OBVIOUS
  <2>1. handlers = 0 => ~(handlers > 0)
    BY DEF CtxInv
  <2> QED BY <2>1 DEF CtxInv, ContextsDestroyedOnce
<1> QED BY <1>1, <1>2, CtxNextInv, PTL DEF CtxSpec

-----------------------------------------------------------------------------
(***************************************************************************)
(* The clock, for any number of CPUs whose counters differ by any amount.  *)
(***************************************************************************)

\* A finite set of integers that is not empty has a least and a largest element.
LEMMA FiniteEnds ==
  ASSUME NEW S, S \subseteq Int, IsFiniteSet(S), S # {}
  PROVE  \E l, m \in S : \A x \in S : l <= x /\ x <= m
<1> DEFINE HasEnds(U) == U # {} => \E l, m \in U : \A x \in U : l <= x /\ x <= m
           T == {n \in Nat : \A U \in SUBSET Int :
                   IsFiniteSet(U) /\ Cardinality(U) = n => HasEnds(U)}
<1>1. 0 \in T
  BY FS_EmptySet
<1>2. ASSUME NEW n \in Nat, n \in T PROVE n + 1 \in T
  <2> SUFFICES ASSUME NEW U \in SUBSET Int, IsFiniteSet(U), Cardinality(U) = n + 1, U # {}
               PROVE  HasEnds(U)
    OBVIOUS
  <2>1. PICK y \in U : TRUE
    OBVIOUS
  <2> DEFINE V == U \ {y}
  <2>2. IsFiniteSet(V) /\ Cardinality(V) = Cardinality(U) - 1
    BY <2>1, FS_RemoveElement
  <2>3. V \in SUBSET Int /\ Cardinality(V) = n
    BY <2>2
  <2>4. HasEnds(V)
    BY <1>2, <2>2, <2>3
  <2>5. U = V \cup {y} /\ U \subseteq Int /\ y \in Int
    BY <2>1
  <2> HIDE DEF V
  <2>6. CASE V = {}
    <3>1. U = {y} /\ y <= y
      BY <2>5, <2>6
    <3> QED BY <3>1
  <2>7. CASE V # {}
    <3>1. PICK l \in V, m \in V : \A x \in V : l <= x /\ x <= m
      BY <2>4, <2>7
    <3>2. l \in Int /\ m \in Int /\ V \subseteq Int
      BY <2>5, <3>1
    <3> DEFINE lo == IF y <= l THEN y ELSE l
               hi == IF y <= m THEN m ELSE y
    <3>3. lo \in U /\ hi \in U
      BY <2>5
    <3>4. \A x \in U : lo <= x /\ x <= hi
      BY <2>5, <3>1, <3>2
    <3> HIDE DEF lo, hi
    <3> QED BY <3>3, <3>4
  <2> QED BY <2>6, <2>7
<1>3. Nat \subseteq T
  <2> HIDE DEF T
  <2> QED BY <1>1, <1>2, SetInduction
<1>4. Cardinality(S) \in Nat
  BY FS_CardinalityType
<1> QED BY <1>3, <1>4

\* No two counters disagree by more than MaxSkew.
LEMMA MaxSkewFacts ==
  MaxSkew \in Nat /\ \A a, b \in Skews : a - b <= MaxSkew
<1> DEFINE D == {Abs(a - b) : a, b \in Skews}
<1>1. D \subseteq Nat
  BY NowAssumption DEF Abs
<1>2. PICK lo \in Skews, hi \in Skews : \A x \in Skews : lo <= x /\ x <= hi
  BY NowAssumption, FiniteEnds
<1>4. lo \in Int /\ hi \in Int /\ Skews \subseteq Int
  BY NowAssumption
<1>5. Abs(hi - lo) \in D
  OBVIOUS
<1>6. \A a, b \in Skews : Abs(a - b) <= Abs(hi - lo)
  BY <1>2, <1>4 DEF Abs
<1>7. MaxSkew \in D /\ \A a, b \in Skews : Abs(a - b) <= MaxSkew
  BY <1>5, <1>6 DEF MaxSkew
<1>8. \A a, b \in Skews : a - b <= Abs(a - b) /\ Abs(a - b) \in Int /\ a - b \in Int
  BY <1>4 DEF Abs
<1>9. MaxSkew \in Nat
  BY <1>1, <1>7
<1> HIDE DEF D
<1>10. \A a, b \in Skews : a - b <= MaxSkew
  BY <1>7, <1>8, <1>9
<1> QED BY <1>9, <1>10

\* Milliseconds do not overtake cycles.
LEMMA DivFacts ==
  ASSUME NEW a \in Nat, NEW b \in Nat, b <= a
  PROVE  /\ a \div Speed \in Int /\ b \div Speed <= a \div Speed
         /\ \A w \in Nat : a - b <= w => (a \div Speed) - (b \div Speed) <= 1 + (w \div Speed)
<1> USE NowAssumption
<1>1. \A n \in Nat : /\ n \div Speed \in Int
                     /\ Speed * (n \div Speed) <= n
                     /\ n < Speed * (n \div Speed) + Speed
  OBVIOUS
<1>2. \A x, y \in Int : Speed * x < Speed * y => x < y
  OBVIOUS
<1> DEFINE p == a \div Speed
           q == b \div Speed
<1>3. p \in Int /\ q \in Int
  BY <1>1
<1>4. q <= p
  <2>1. Speed * q < Speed * p + Speed
    BY <1>1
  <2>2. Speed * (p + 1) = Speed * p + Speed
    BY <1>3
  <2> HIDE DEF p, q
  <2> QED BY <1>2, <1>3, <2>1, <2>2
<1>5. ASSUME NEW w \in Nat, a - b <= w PROVE p - q <= 1 + (w \div Speed)
  <2> DEFINE d == w \div Speed
  <2>1. d \in Int
    BY <1>1
  <2>2. Speed * p <= a /\ b < Speed * q + Speed /\ w < Speed * d + Speed
    BY <1>1
  <2>3. Speed * (q + d + 2) = Speed * q + Speed + Speed * d + Speed
    BY <1>3, <2>1
  <2> HIDE DEF p, q, d
  <2>4. Speed * p < Speed * (q + d + 2)
    BY <1>3, <1>5, <2>1, <2>2, <2>3
  <2>5. p < q + d + 2
    BY <1>2, <1>3, <2>1, <2>4
  <2>6. p - q <= 1 + d
    BY <1>3, <2>1, <2>5
  <2> QED BY <2>6 DEF d
<1> QED BY <1>3, <1>4, <1>5

\* The cached time and the cached cycle count were read together, on some CPU
\* at some moment of the past.
ReadTogether(c, k) ==
  /\ c \in Nat /\ c <= cycles /\ k \in Skews
  /\ last_tsc = c + k /\ last_time = c \div Speed
NowInv ==
  /\ cycles \in Nat /\ skew \in Skews
  /\ answer = last_time
  /\ \E c \in Nat, k \in Skews : ReadTogether(c, k)

LEMMA NowNextInv == NowInv /\ [NowNext]_nowVars => NowInv'
<1> SUFFICES ASSUME NowInv, [NowNext]_nowVars PROVE NowInv'
  OBVIOUS
<1>1. PICK c \in Nat, k \in Skews : ReadTogether(c, k)
  BY DEF NowInv
<1>2. CASE DillNow
  <2>1. CASE Recent
    BY <1>1, <1>2, <2>1 DEF DillNow, NowInv, ReadTogether
  <2>2. CASE ~Recent
    <3>1. /\ cycles' = cycles /\ skew' = skew /\ answer' = last_time'
          /\ last_tsc' = cycles + skew /\ last_time' = cycles \div Speed
      BY <1>2, <2>2 DEF DillNow, Rdtsc, Mnow
    <3>2. cycles \in Nat /\ skew \in Skews
      BY DEF NowInv
    <3>3. ReadTogether(cycles, skew)'
      BY <3>1, <3>2 DEF ReadTogether
    <3> QED BY <3>1, <3>2, <3>3 DEF NowInv
  <2> QED BY <2>1, <2>2
<1>3. CASE Cycle
  <2>1. ReadTogether(c, k)' /\ cycles' \in Nat
    BY <1>1, <1>3 DEF Cycle, ReadTogether, NowInv
  <2> QED BY <1>3, <2>1 DEF Cycle, NowInv
<1>4. ASSUME NEW n \in Skews, Migrate(n) PROVE NowInv'
  BY <1>1, <1>4 DEF Migrate, NowInv, ReadTogether
<1>5. CASE UNCHANGED nowVars
  BY <1>1, <1>5 DEF nowVars, NowInv, ReadTogether
<1> QED BY <1>2, <1>3, <1>4, <1>5 DEF NowNext

\* Time never runs backwards, and lags by the window and the disagreement of
\* the counters at most, for any speed of the CPU and however often the thread
\* is moved to another one.
THEOREM TimeCorrect == NowSpec => TimeSane
<1> DEFINE Lag == Recent => Mnow - last_time <= 1 + ((Window + MaxSkew) \div Speed)
           Later == answer' >= answer
<1>1. NowInit => NowInv
  <2> SUFFICES ASSUME NowInit PROVE NowInv
    OBVIOUS
  <2>1. ReadTogether(0, 0)
    BY NowAssumption DEF NowInit, ReadTogether, Rdtsc, Mnow
  <2> QED BY <2>1, NowAssumption DEF NowInit, NowInv
<1>2. NowInv => Lag
  <2> SUFFICES ASSUME NowInv, Recent
               PROVE  Mnow - last_time <= 1 + ((Window + MaxSkew) \div Speed)
    OBVIOUS
  <2>1. PICK c \in Nat, k \in Skews : ReadTogether(c, k)
    BY DEF NowInv
  <2>2. cycles \in Nat /\ skew \in Int /\ k \in Int /\ c <= cycles
          /\ skew \in Skews /\ Window \in Nat
    BY <2>1, NowAssumption DEF NowInv, ReadTogether
  <2>3. (cycles + skew) - (c + k) < Window
    BY <2>1, <2>2 DEF Recent, Rdtsc, ReadTogether, Abs
  <2>4. MaxSkew \in Nat /\ k - skew <= MaxSkew
    BY <2>2, MaxSkewFacts
  <2>5. Window + MaxSkew \in Nat /\ cycles - c <= Window + MaxSkew
    BY <2>2, <2>3, <2>4
  <2> QED BY <2>1, <2>2, <2>5, DivFacts DEF Mnow, ReadTogether
<1>3. NowInv /\ [NowNext]_nowVars => [Later]_nowVars
  <2> SUFFICES ASSUME NowInv, NowNext PROVE Later
    OBVIOUS
  <2>1. PICK c \in Nat, k \in Skews : ReadTogether(c, k)
    BY DEF NowInv
  <2>2. answer \in Int /\ answer = last_time /\ last_time <= cycles \div Speed
          /\ cycles \div Speed \in Int
    BY <2>1, DivFacts, NowAssumption DEF NowInv, ReadTogether
  <2> QED BY <2>2 DEF NowNext, DillNow, Cycle, Migrate, Mnow
<1> QED BY <1>1, <1>2, <1>3, NowNextInv, PTL DEF NowSpec, TimeSane
=============================================================================
