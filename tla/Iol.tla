--------------------------------- MODULE Iol ---------------------------------
(***************************************************************************)
(* Lists of buffers: iol.c. The first part is dill_iolcheck, which every   *)
(* send and receive calls on a list the program has linked as it likes;    *)
(* the second part is the functions that cut and copy lists, against what  *)
(* they mean for the memory of a list, its cells in order.                 *)
(***************************************************************************)
EXTENDS SeqOps, FiniteSetsExt, SequencesExt

CONSTANTS
  Bufs,   \* elements of lists (struct iolist)
  null,   \* NULL
  Lens    \* lengths of buffers in the second part

ASSUME IolAssumption == null \notin Bufs /\ Lens \subseteq Nat

VARIABLES
  next,   \* iol_next of each element
  rsvd,   \* elements whose iol_rsvd is set
  call,   \* the last call of dill_iolcheck and what it found
  input   \* lengths of a list for the second part, <<>> for the first

iolVars == <<next, rsvd, call, input>>

NoCall == [first |-> null, last |-> null, was |-> {}, rc |-> 0]

IolInit ==
  /\ next = [b \in Bufs |-> null] /\ rsvd = {} /\ call = NoCall
  /\ input \in UNION {[1..n -> Lens] : n \in 0..3}

\* Cells in the first n buffers.
SumOver(n) == FoldFunctionOnSet(+, 0, input, 1..n)

\* The program links b to c.
Link(b, c) ==
  /\ next' = [next EXCEPT ![b] = c]
  /\ call' = NoCall
  /\ UNCHANGED <<rsvd, input>>

\* Why the walk stops at it: a loop, a mark, or an end that is not the last.
AtFaultLoop(it, last, marks) == it \in marks
AtFault(it, last, marks) == it \in marks \/ (next[it] = null /\ it # last)

\* The walk that marks elements, from it on: [rc, rsvd]. After a failure only
\* the mark of the element at fault is taken back.
RECURSIVE Mark(_, _, _, _)
Mark(first, last, it, marks) ==
  IF it = null THEN [rc |-> 0, rsvd |-> marks]
  ELSE IF AtFault(it, last, marks)
  THEN [rc |-> -1, rsvd |-> IF it = first THEN marks ELSE marks \ {it}]
  ELSE Mark(first, last, next[it], marks \cup {it})

\* The elements of a list that ends.
RECURSIVE Elements(_)
Elements(it) == IF it = null THEN {} ELSE {it} \cup Elements(next[it])

\* dill_iolcheck(first, last).
IolCheck(first, last) ==
  LET m == IF last = null \/ next[last] # null THEN [rc |-> -1, rsvd |-> rsvd]
           ELSE Mark(first, last, first, rsvd)
  IN /\ call' = [first |-> first, last |-> last, was |-> rsvd, rc |-> m.rc]
     /\ rsvd' = IF m.rc = 0 THEN m.rsvd \ Elements(first) ELSE m.rsvd
     /\ UNCHANGED <<next, input>>

IolNext ==
  /\ input = <<>>
  /\ \/ \E b \in Bufs, c \in Bufs \cup {null} : Link(b, c)
     \/ \E first \in Bufs, last \in Bufs \cup {null} : IolCheck(first, last)

-----------------------------------------------------------------------------
\* Cutting and copying. A list is a sequence of buffers, a buffer the sequence
\* of its cells.

\* dill_ioltrim: the list without its first n cells. Each of the three returns
\* [rc, v].
RECURSIVE IolTrim(_, _)
IolTrim(l, n) ==
  IF l = <<>> THEN [rc |-> -1, v |-> <<>>]
  ELSE IF Len(Head(l)) >= n
  THEN [rc |-> 0, v |-> <<SubSeq(Head(l), n + 1, Len(Head(l)))>> \o Tail(l)]
  ELSE IolTrim(Tail(l), n - Len(Head(l)))

\* dill_iolto: pairs of a cell and the index of the byte copied to it.
RECURSIVE IolTo(_, _, _)
IolTo(l, from, n) ==
  IF n = 0 THEN [rc |-> 0, v |-> {}]
  ELSE IF l = <<>> THEN [rc |-> -1, v |-> {}]
  ELSE LET k == Min({n, Len(Head(l))})
           more == IolTo(Tail(l), from + k, n - k)
       IN [more EXCEPT !.v = @ \cup {<<Head(l)[i], from + i>> : i \in 1..k}]

\* dill_iolfrom: the cells copied to a buffer of n bytes.
RECURSIVE IolFrom(_, _)
IolFrom(l, n) ==
  IF l = <<>> THEN [rc |-> 0, v |-> <<>>]
  ELSE IF n < Len(Head(l)) THEN [rc |-> -1, v |-> <<>>]
  ELSE LET more == IolFrom(Tail(l), n - Len(Head(l)))
       IN [more EXCEPT !.v = Head(l) \o @]

\* The list with buffers of the lengths chosen in input, cells numbered in order.
Cells ==
  LET before(i) == SumOver(i - 1)
  IN  [i \in 1..Len(input) |-> [j \in 1..input[i] |-> before(i) + j]]

-----------------------------------------------------------------------------
\* A list, spelled out: s leads from first to last, repeats nothing, ends there,
\* and no element was marked.
IsList(s, first, last, was) ==
  /\ s[1] = first /\ s[Len(s)] = last
  /\ NoDup(s) /\ Range(s) \cap was = {}
  /\ \A i \in 1..Len(s) : next[s[i]] = IF i = Len(s) THEN null ELSE s[i + 1]

\* dill_iolcheck accepts the well-formed lists and no others, whatever loops and
\* shared tails the program has linked, and leaves no mark on a list it accepts.
\* The helpers do to the buffers of a list what is meant for its cells, and fail
\* exactly if there are too few of them.
IolExact ==
  /\ call # NoCall =>
       /\ (call.rc = 0) = \E n \in 1..Cardinality(Bufs) : \E s \in [1..n -> Bufs] :
                            IsList(s, call.first, call.last, call.was)
       /\ call.rc = 0 => rsvd = call.was
  /\ input # <<>> =>
       LET l == Cells
           cells == SumOver(Len(input))
           copied(n) == {<<i, i>> : i \in 1..n}
       IN \A n \in 0..cells + 1 :
            LET trim == IolTrim(l, n)  to == IolTo(l, 0, n)  from == IolFrom(l, n)
            IN /\ (trim.rc = 0) = (n <= cells) /\ (to.rc = 0) = (n <= cells)
               /\ (from.rc = 0) = (n >= cells)
               /\ trim.rc = 0 => FlattenSeq(trim.v) = [i \in 1..cells - n |-> n + i]
               /\ to.v = copied(Min({n, cells}))
               /\ from.rc = 0 => from.v = [i \in 1..cells |-> i]

\* bsendl(3), brecvl(3): "once the function returns the list is guaranteed to be
\* the same as before the call."
ListUnchanged == call # NoCall => rsvd = call.was
=============================================================================
