----------------------------- MODULE TimerQueue -----------------------------
(***************************************************************************)
(* What the kernel expects of its timers: a queue in deadline order in     *)
(* which a new timer goes behind those that are not later (module Sched    *)
(* relies on it), and from which any timer can be taken. The tree of       *)
(* module Rbtree implements it.                                            *)
(***************************************************************************)
EXTENDS Integers, Sequences, FiniteSets

CONSTANTS
  Items,  \* timers, by address
  Vals    \* deadlines

VARIABLE queue

Timer(i, v) == [item |-> i, val |-> v]
Queued == {queue[k].item : k \in DOMAIN queue}
Slot(v) == 1 + Cardinality({k \in DOMAIN queue : queue[k].val <= v})

Init == queue = <<>>

Insert(i, v) ==
  /\ i \notin Queued
  /\ queue' = SubSeq(queue, 1, Slot(v) - 1) \o <<Timer(i, v)>>
                \o SubSeq(queue, Slot(v), Len(queue))

Erase(i) ==
  /\ i \in Queued
  /\ queue' = SelectSeq(queue, LAMBDA e : e.item # i)

Next == \E i \in Items : Erase(i) \/ \E v \in Vals : Insert(i, v)

Spec == Init /\ [][Next]_queue
=============================================================================
