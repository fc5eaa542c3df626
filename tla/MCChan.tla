------------------------------- MODULE MCChan -------------------------------
(***************************************************************************)
(* TLC instances of Chan.                                                  *)
(***************************************************************************)
EXTENDS Chan, TLC

CONSTANTS m, c1, c2, b1, ch1, m1

TwoChildren == {m, c1, c2}
OneBundle == {b1}
NeverOrOne == {-1, 1}

ChanEndpoints == {"in", "out"} \X Halves

Clause(op, ch, side, len) == [op |-> op, h |-> <<ch, side>>, len |-> len]

\* choose() between sending and receiving at one side of the channel, and
\* with one clause and a larger buffer at the other.
SendOrReceive ==
  {<<Clause("send", ch1, 0, 1), Clause("recv", ch1, 0, 1)>>,
   <<Clause("recv", ch1, 1, 2)>>}

Sym2 == Permutations({c1, c2})
=============================================================================
