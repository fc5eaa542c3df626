------------------------------ MODULE MCContext ------------------------------
(***************************************************************************)
(* TLC instance of what a thread's context holds besides the scheduler:    *)
(* handle table, timer tree, stack cache and clock, and of the context's   *)
(* own life. They share no state, so each behaviour exercises one of them. *)
(* Six items are the smallest number with which dill_rbtree_fixup meets a  *)
(* red sibling, on either side.                                            *)
(***************************************************************************)
EXTENDS Handle, Rbtree, Stack, Now, Ctx

CONSTANTS o1, o2, o3, o4, ty1, ty2, i1, i2, i3, i4, i5, i6, s1, s2, s3, s4, th1, th2

VARIABLE part

contextVars == <<vars, treeVars, stackVars, nowVars, ctxVars, part>>

ContextInit ==
  /\ Init /\ TreeInit /\ StackInit /\ NowInit /\ CtxInit
  /\ part \in {"handles", "tree", "stack", "now", "ctx"}
  /\ part # "ctx" => ~fallback

ContextNext ==
  /\ UNCHANGED part
  /\ \/ part = "handles" /\ Next /\ UNCHANGED <<treeVars, stackVars, nowVars, ctxVars>>
     \/ part = "tree" /\ TreeNext /\ UNCHANGED <<vars, stackVars, nowVars, ctxVars>>
     \/ part = "stack" /\ StackNext /\ UNCHANGED <<vars, treeVars, nowVars, ctxVars>>
     \/ part = "now" /\ NowNext /\ UNCHANGED <<vars, treeVars, stackVars, ctxVars>>
     \/ part = "ctx" /\ CtxNext /\ UNCHANGED <<vars, treeVars, stackVars, nowVars>>

ContextSpec == ContextInit /\ [][ContextNext]_contextVars

SkewSet == {-3, 0, 2}
=============================================================================
