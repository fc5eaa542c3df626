-------------------------------- MODULE Rbtree --------------------------------
(***************************************************************************)
(* The red-black tree that holds the timers: rbtree.c. Every pointer is    *)
(* modelled, those of the two sentinels included: root, whose left child   *)
(* is the top of the tree, and nil, which stands for a missing child and   *)
(* whose up pointer dill_rbtree_erase uses as a scratch variable.          *)
(*                                                                         *)
(* The code has each case twice, mirrored. Here a case is written once,    *)
(* for a direction d that is "left" or "right".                            *)
(***************************************************************************)
EXTENDS Integers, Sequences, FiniteSets

CONSTANTS
  Items,      \* struct dill_rbtree_item, by address
  Vals,       \* deadlines
  root, nil   \* the two sentinels inside of struct dill_rbtree

ASSUME RbtreeAssumption ==
  /\ root # nil /\ root \notin Items /\ nil \notin Items
  /\ Vals \subseteq Int

Nodes == Items \cup {root, nil}

VARIABLES
  tree,   \* the fields of all nodes: red, left, right, up, val
  member, \* the items that were inserted and not erased
  walk    \* what first() and next() visit now, in this order

treeVars == <<tree, member, walk>>

\* dill_rbtree_init. Items that were never inserted hold arbitrary pointers.
TreeInit ==
  /\ tree = [red   |-> [n \in Nodes |-> FALSE],
             left  |-> [n \in Nodes |-> nil],
             right |-> [n \in Nodes |-> nil],
             up    |-> [n \in Nodes |-> nil],
             val   |-> [n \in Nodes |-> 0]]
  /\ member = {}
  /\ walk = <<>>

Opp(d) == IF d = "left" THEN "right" ELSE "left"

\* On which side of its parent x is linked.
SideOf(t, x) == IF x = t.left[t.up[x]] THEN "left" ELSE "right"

Paint(t, n, isred) == [t EXCEPT !.red[n] = isred]

\* dill_rbtree_lrotate (d = "left") and dill_rbtree_rrotate.
RotateNoUp(t, x, d) ==
  LET y == t[Opp(d)][x]
      t1 == [t EXCEPT ![Opp(d)][x] = t[d][y], !.up[y] = t.up[x]]
  IN  [t1 EXCEPT ![SideOf(t, x)][t.up[x]] = y, ![d][y] = x, !.up[x] = y]
Rotate(t, x, d) ==
  LET y == t[Opp(d)][x]
      t1 == [t EXCEPT ![Opp(d)][x] = t[d][y]]
      t2 == IF t[d][y] # nil THEN [t1 EXCEPT !.up[t[d][y]] = x] ELSE t1
      t3 == [t2 EXCEPT !.up[y] = t2.up[x]]
  IN  [t3 EXCEPT ![SideOf(t3, x)][t3.up[x]] = y, ![d][y] = x, !.up[x] = y]

-----------------------------------------------------------------------------
(***************************************************************************)
(* Insertion.                                                              *)
(***************************************************************************)

\* The loop of dill_rbtree_insert_help: the node below which v is linked,
\* coming from y to x. Equal values are passed on the right.
RECURSIVE PlaceFor(_, _, _, _)
PlaceFor(t, y, x, v) ==
  IF x = nil THEN y
  ELSE PlaceFor(t, x, IF t.val[x] > v THEN t.left[x] ELSE t.right[x], v)

InsertHelpEqualLeft(t, z) ==
  LET y == PlaceFor(t, root, t.left[root], t.val[z] - 1)
      d == IF y = root \/ t.val[y] >= t.val[z] THEN "left" ELSE "right"
  IN  [t EXCEPT !.left[z] = nil, !.right[z] = nil, !.up[z] = y, ![d][y] = z]
InsertHelp(t, z) ==
  LET t1 == [t EXCEPT !.left[z] = nil, !.right[z] = nil]
      y == PlaceFor(t1, root, t1.left[root], t1.val[z])
      d == IF y = root \/ t1.val[y] > t1.val[z] THEN "left" ELSE "right"
  IN  [t1 EXCEPT !.up[z] = y, ![d][y] = z]

\* The loop of dill_rbtree_insert at node x, which is red.
RECURSIVE Recolor(_, _)
Recolor(t, x) ==
  IF ~t.red[t.up[x]] THEN t
  ELSE LET p == t.up[x]
           g == t.up[p]
           d == SideOf(t, p)
           y == t[Opp(d)][g]
       IN IF t.red[y]
          THEN Recolor(Paint(Paint(Paint(t, p, FALSE), y, FALSE), g, TRUE), g)
          ELSE LET inner == x = t[Opp(d)][p]
                   x1 == IF inner THEN p ELSE x
                   t1 == IF inner THEN Rotate(t, p, d) ELSE t
                   p1 == t1.up[x1]
                   g1 == t1.up[p1]
               IN Recolor(Rotate(Paint(Paint(t1, p1, FALSE), g1, TRUE), g1, Opp(d)), x1)

\* dill_rbtree_insert.
Inserted(t, v, z) ==
  LET t1 == Recolor(Paint(InsertHelp([t EXCEPT !.val[z] = v], z), z, TRUE), z)
  IN  Paint(t1, t1.left[root], FALSE)

-----------------------------------------------------------------------------
(***************************************************************************)
(* Iteration.                                                              *)
(***************************************************************************)
RECURSIVE Leftmost(_, _)
Leftmost(t, x) == IF t.left[x] = nil THEN x ELSE Leftmost(t, t.left[x])

\* dill_rbtree_first; nil stands for NULL.
First(t) == IF t.left[root] = nil THEN nil ELSE Leftmost(t, t.left[root])

RECURSIVE Ascend(_, _, _)
Ascend(t, x, y) == IF x = t.right[y] THEN Ascend(t, y, t.up[y]) ELSE y

\* dill_rbtree_next_help, dill_rbtree_next.
NextOf(t, x) ==
  IF t.right[x] # nil THEN Leftmost(t, t.right[x])
  ELSE LET y == Ascend(t, x, t.up[x]) IN IF y = root THEN nil ELSE y

\* The items in the order in which first() and next() visit them. A walk that
\* goes on for longer than there are items is cut off.
RECURSIVE Walk(_, _, _)
Walk(t, x, n) ==
  IF x = nil \/ n = 0 THEN <<>>
  ELSE <<[item |-> x, val |-> t.val[x]]>> \o Walk(t, NextOf(t, x), n - 1)

Listing(t) == Walk(t, First(t), Cardinality(Items) + 1)

-----------------------------------------------------------------------------
(***************************************************************************)
(* Removal.                                                                *)
(***************************************************************************)

\* dill_rbtree_fixup: x is one black node short. top is what was the top of
\* the tree when the loop began, wherever rotations have put it since.
RECURSIVE Fixup(_, _, _)
Fixup(t, x, top) ==
  IF t.red[x] \/ x = top THEN Paint(t, x, FALSE)
  ELSE LET d == SideOf(t, x)
           e == Opp(d)
           w0 == t[e][t.up[x]]
           t1 == IF t.red[w0]
                 THEN Rotate(Paint(Paint(t, w0, FALSE), t.up[x], TRUE), t.up[x], d)
                 ELSE t
           p == t1.up[x]
           w1 == t1[e][p]
       IN IF ~t1.red[t1.right[w1]] /\ ~t1.red[t1.left[w1]]
          THEN Fixup(Paint(t1, w1, TRUE), p, top)
          ELSE LET t2 == IF ~t1.red[t1[e][w1]]
                         THEN Rotate(Paint(Paint(t1, t1[d][w1], FALSE), w1, TRUE), w1, e)
                         ELSE t1
                   w == t2[e][p]
                   t3 == Paint(Paint(Paint(t2, w, t2.red[p]), p, FALSE), t2[e][w], FALSE)
               IN Fixup(Rotate(t3, p, d), top, top)

\* y takes the place of z.
ReplacedKeepsColor(t, y, z) ==
  LET t1 == [t EXCEPT !.left[y] = t.left[z], !.right[y] = t.right[z], !.up[y] = t.up[z]]
      t2 == [t1 EXCEPT !.up[t1.left[z]] = y, !.up[t1.right[z]] = y]
  IN  [t2 EXCEPT ![SideOf(t2, z)][t2.up[z]] = y]
Replaced(t, y, z) ==
  LET t1 == [t EXCEPT !.left[y] = t.left[z], !.right[y] = t.right[z],
                      !.up[y] = t.up[z], !.red[y] = t.red[z]]
      t2 == [t1 EXCEPT !.up[t1.left[z]] = y, !.up[t1.right[z]] = y]
  IN  [t2 EXCEPT ![SideOf(t2, z)][t2.up[z]] = y]

\* dill_rbtree_erase: z, or its successor y if z has two children, is unlinked;
\* then y takes the place of z.
Erased(t, z) ==
  LET y == IF t.left[z] = nil \/ t.right[z] = nil THEN z ELSE NextOf(t, z)
      x == IF t.left[y] = nil THEN t.right[y] ELSE t.left[y]
      t1 == [t EXCEPT !.up[x] = t.up[y]]
      d == IF t1.up[x] = root THEN "left" ELSE SideOf(t1, y)
      t2 == [t1 EXCEPT ![d][t1.up[x]] = x]
      t3 == IF ~t2.red[y] THEN Fixup(t2, x, t2.left[root]) ELSE t2
  IN  IF y # z THEN Replaced(t3, y, z) ELSE t3

Insert(i, v) ==
  /\ i \notin member
  /\ tree' = Inserted(tree, v, i)
  /\ member' = member \cup {i}
  /\ walk' = Listing(tree')

\* The item was on the stack of a coroutine and is gone with its frame.
Forgotten(t, i) ==
  [t EXCEPT !.left[i] = nil, !.right[i] = nil, !.up[i] = nil, !.red[i] = FALSE, !.val[i] = 0]

Erase(i) ==
  /\ i \in member
  /\ tree' = Forgotten(Erased(tree, i), i)
  /\ member' = member \ {i}
  /\ walk' = Listing(tree')

TreeNext == \E i \in Items : Erase(i) \/ \E v \in Vals : Insert(i, v)

TreeSpec == TreeInit /\ [][TreeNext]_treeVars

-----------------------------------------------------------------------------
(***************************************************************************)
(* Properties.                                                             *)
(***************************************************************************)

TQ == INSTANCE TimerQueue WITH queue <- walk

\* The tree implements the queue of timers that the kernel relies on: walking
\* it with first() and next() gives the timers by deadline, equal deadlines in
\* the order of insertion, whatever was inserted and erased before.
ImplementsQueue == TQ!Spec

\* The number of black nodes on every path from x down, -1 if paths differ.
RECURSIVE BlackHeight(_)
BlackHeight(x) ==
  IF x = nil THEN 0
  ELSE LET l == BlackHeight(tree.left[x])
           h == BlackHeight(tree.right[x])
       IN IF l = -1 \/ l # h THEN -1 ELSE l + (IF tree.red[x] THEN 0 ELSE 1)

\* The tree stays balanced, so that no operation takes longer than logarithmic
\* time: all paths have the same number of black nodes and no red node has a
\* red child. The sentinels stay black and nil has no children, which the
\* loops take for granted, and up pointers mirror the child pointers.
Balanced ==
  /\ BlackHeight(tree.left[root]) # -1
  /\ ~tree.red[root] /\ ~tree.red[nil] /\ ~tree.red[tree.left[root]]
  /\ tree.left[nil] = nil /\ tree.right[nil] = nil /\ tree.right[root] = nil
  /\ \A i \in member : \A d \in {"left", "right"} :
        tree[d][i] # nil =>
          /\ tree.up[tree[d][i]] = i
          /\ ~(tree.red[i] /\ tree.red[tree[d][i]])
=============================================================================
