------------------------------- MODULE SeqOps -------------------------------
(***************************************************************************)
(* Helpers for the intrusive lists of libdill (list.h, qlist.h, slist.h).  *)
(* A list is a sequence of the objects linked on it.                       *)
(***************************************************************************)
EXTENDS Integers, Sequences, FiniteSets, Functions

\* One step of the filter below: x is linked behind g unless it is in S.
Pass(g, x, S) == IF x \in S THEN g ELSE Append(g, x)

\* The list q after every element of S has been erased from it. It is the
\* filter SelectSeq(q, LAMBDA x : x \notin S) of the standard library, spelled
\* out so that the provers see the recursive function inside.
Without(q, S) ==
  LET F[i \in 0..Len(q)] == IF i = 0 THEN <<>> ELSE Pass(F[i-1], q[i], S)
  IN  F[Len(q)]

\* A list never holds the same object twice: the links are inside the object.
NoDup(q) == \A i, j \in 1..Len(q) : q[i] = q[j] => i = j
=============================================================================
