-------------------------------- MODULE Handle --------------------------------
(***************************************************************************)
(* The table of handles: handle.c. A handle is an index into an array that *)
(* grows by realloc; unused entries form a linked list threaded through    *)
(* the array, taken from at its head and returned to at its tail.          *)
(*                                                                         *)
(* Closing a handle calls the object's close function. For a bundle with   *)
(* coroutines in it that function suspends the caller (module Cr), so      *)
(* other coroutines use the table before dill_hclose goes on.              *)
(***************************************************************************)
EXTENDS SeqOps

CONSTANTS
  Objs,        \* struct dill_hvfs, by address
  NoObj,       \* the NULL pointer
  Types,       \* the types hquery() is asked for
  NoType,
  InitSize,    \* the 256 of dill_hmake
  Reserve,     \* the 8 of dill_hmake
  MaxHandles,  \* bound: the array grows no further
  SlowClose,   \* the objects whose close function suspends the caller
  Moves        \* does realloc move the array?

ASSUME HandleAssumption ==
  /\ NoObj \notin Objs /\ NoType \notin Types
  /\ InitSize \in Nat /\ Reserve \in Nat /\ Reserve < InitSize
  /\ MaxHandles \in Nat
  /\ SlowClose \subseteq Objs
  /\ Moves \in BOOLEAN

End == -1      \* dill_handle::next of the last unused entry; no handle
Used == -2     \* dill_handle::next of an entry in use

VARIABLES
  ctx,      \* struct dill_ctx_handle: handles, nhandles, nused, first, last
  own,      \* the number the program knows an object by; End: none
  closing,  \* handles in a dill_hclose whose close function is suspended
  moved,    \* those of them whose entry was moved away by realloc
  oob,      \* an entry outside of the array was accessed
  pool      \* history: the numbers that ought to be on the list, in order

vars == <<ctx, own, closing, moved, oob, pool>>

Entry(vfs, next) == [vfs |-> vfs, next |-> next, type |-> NoType, ptr |-> NoObj]

Ctx(handles, nhandles, nused, first, last) ==
  [handles |-> handles, nhandles |-> nhandles, nused |-> nused,
   first |-> first, last |-> last]

\* dill_ctx_handle_init.
Init ==
  /\ ctx = Ctx([h \in {} |-> Entry(NoObj, End)], 0, 0, End, End)
  /\ own = [o \in Objs |-> End]
  /\ closing = {} /\ moved = {}
  /\ oob = FALSE
  /\ pool = <<>>

\* DILL_CHECKHANDLE.
Valid(h) == h \in DOMAIN ctx.handles /\ ctx.handles[h].next = Used

-----------------------------------------------------------------------------
(***************************************************************************)
(* The list of unused entries.                                             *)
(***************************************************************************)

Full(x) == x.nhandles - x.nused <= Reserve

\* The first half of dill_hmake: if too few entries are unused the array is
\* doubled. The new list holds the new entries only.
Grown(x) ==
  LET sz == IF x.nhandles = 0 THEN InitSize ELSE 2 * x.nhandles
  IN  IF ~Full(x) THEN x
      ELSE Ctx([h \in 0..(sz - 1) |->
                  IF h < x.nhandles THEN x.handles[h]
                  ELSE Entry(NoObj, IF h = sz - 1 THEN End ELSE h + 1)],
               sz, x.nused, x.nhandles, sz - 1)

GrownPool(x, q) ==
  IF ~Full(x) THEN q
  ELSE [i \in 1..(Grown(x).nhandles - x.nhandles) |-> x.nhandles + i - 1]

\* The second half: the head of the list is taken for object o. The statement
\* that would reset ctx->last compares a truth value with -1; it never does.
PoppedUncounted(x, o) ==
  Ctx([x.handles EXCEPT ![x.first] = Entry(o, Used)],
      x.nhandles, x.nused, x.handles[x.first].next, x.last)
Popped(x, o) ==
  Ctx([x.handles EXCEPT ![x.first] = Entry(o, Used)],
      x.nhandles, x.nused + 1, x.handles[x.first].next, x.last)

\* The end of dill_hclose and dill_hown: the entry is marked as unused, if the
\* pointer to it still leads into the array, and h goes to the end of the list.
UnusedCacheOnly(e) == [e EXCEPT !.ptr = NoObj]
Unused(e) == [vfs |-> e.vfs, next |-> End, type |-> e.type, ptr |-> NoObj]

Marked(x, h) ==
  Ctx([x.handles EXCEPT ![h] = Unused(@)], x.nhandles, x.nused, x.first, x.last)

LinkedHead(x, h) == Ctx(x.handles, x.nhandles, x.nused - 1, h, x.last)
LinkedAlwaysLast(x, h) ==
  Ctx([x.handles EXCEPT ![x.last] = [@ EXCEPT !.next = h]],
      x.nhandles, x.nused - 1, x.first, h)
Linked(x, h) ==
  IF x.first = End
  THEN Ctx(x.handles, x.nhandles, x.nused - 1, h, h)
  ELSE Ctx([x.handles EXCEPT ![x.last] = [@ EXCEPT !.next = h]],
           x.nhandles, x.nused - 1, x.first, h)

Released(x, h, here) == Linked(IF here THEN Marked(x, h) ELSE x, h)

-----------------------------------------------------------------------------
(***************************************************************************)
(* The operations.                                                         *)
(***************************************************************************)

\* realloc moves the array away from under the pointers to its entries.
Realloc(x) == moved' = IF Moves /\ Full(x) THEN closing ELSE moved

\* dill_hmake for a new object o. It fails and changes nothing in a coroutine
\* that may not block.
Hmake(o) ==
  /\ ~oob /\ own[o] = End
  /\ Grown(ctx).nhandles <= MaxHandles
  /\ LET x == Grown(ctx)
     IN IF x.first \in DOMAIN x.handles
        THEN /\ ctx' = Popped(x, o)
             /\ own' = [own EXCEPT ![o] = x.first]
             /\ pool' = LET q == GrownPool(ctx, pool) IN IF q = <<>> THEN q ELSE Tail(q)
             /\ UNCHANGED oob
        ELSE oob' = TRUE /\ UNCHANGED <<ctx, own, pool>>
  /\ Realloc(ctx)
  /\ UNCHANGED closing

\* dill_hown: a new number for the object, then the old one is released. The
\* pointer to the old entry is computed anew after dill_hmake.
Hown(o) ==
  /\ ~oob /\ Valid(own[o]) /\ own[o] \notin closing
  /\ Grown(ctx).nhandles <= MaxHandles
  /\ LET h == own[o]
         x == Grown(ctx)
     IN IF x.first \in DOMAIN x.handles
        THEN /\ ctx' = Released(Popped(x, ctx.handles[h].vfs), h, TRUE)
             /\ own' = [own EXCEPT ![o] = x.first]
             /\ pool' = LET q == GrownPool(ctx, pool)
                        IN  Append(IF q = <<>> THEN q ELSE Tail(q), h)
             /\ UNCHANGED oob
        ELSE oob' = TRUE /\ UNCHANGED <<ctx, own, pool>>
  /\ Realloc(ctx)
  /\ UNCHANGED closing

\* dill_hclose of an object whose close function does not suspend. dill_hown
\* does the same when its dill_hmake fails.
Hclose(o) ==
  /\ ~oob /\ Valid(own[o]) /\ o \notin SlowClose
  /\ ctx' = Released(ctx, own[o], TRUE)
  /\ pool' = Append(pool, own[o])
  /\ own' = [own EXCEPT ![o] = End]
  /\ UNCHANGED <<closing, moved, oob>>

\* dill_hclose up to the call of a close function that suspends, and the rest
\* of it. The program forgets the number when it calls hclose().
HcloseReleasesFirst(o) ==
  /\ ~oob /\ Valid(own[o]) /\ o \in SlowClose
  /\ ctx' = Released(ctx, own[o], TRUE)
  /\ pool' = Append(pool, own[o])
  /\ closing' = closing \cup {own[o]}
  /\ own' = [own EXCEPT ![o] = End]
  /\ UNCHANGED <<moved, oob>>
HcloseBegin(o) ==
  /\ ~oob /\ Valid(own[o]) /\ o \in SlowClose
  /\ closing' = closing \cup {own[o]}
  /\ own' = [own EXCEPT ![o] = End]
  /\ UNCHANGED <<ctx, moved, oob, pool>>

HcloseEnd(h) ==
  /\ ~oob /\ h \in closing
  /\ ctx' = Released(ctx, h, h \notin moved)
  /\ pool' = Append(pool, h)
  /\ closing' = closing \ {h}
  /\ moved' = moved \ {h}
  /\ UNCHANGED <<own, oob>>

\* dill_hquery. An object answers for a type with a pointer of its own for that
\* type, or with NULL, which changes nothing.
CachedKeepsType(e, type) == [e EXCEPT !.ptr = <<e.vfs, type>>]
Cached(e, type) ==
  [vfs |-> e.vfs, next |-> e.next, type |-> type, ptr |-> <<e.vfs, type>>]

Hquery(h, type) ==
  /\ ~oob /\ Valid(h)
  /\ LET e == ctx.handles[h]
     IN ctx' = IF e.ptr # NoObj /\ e.type = type THEN ctx
               ELSE [ctx EXCEPT !.handles = [@ EXCEPT ![h] = Cached(e, type)]]
  /\ UNCHANGED <<own, closing, moved, oob, pool>>

Next ==
  \/ \E o \in Objs : Hmake(o) \/ Hown(o) \/ Hclose(o) \/ HcloseBegin(o)
  \/ \E h \in closing : HcloseEnd(h)
  \/ \E h \in DOMAIN ctx.handles, type \in Types : Hquery(h, type)

Spec == Init /\ [][Next]_vars

-----------------------------------------------------------------------------
(***************************************************************************)
(* Properties.                                                             *)
(***************************************************************************)

\* Every variable has its type.
TypeOK ==
  /\ ctx.nhandles \in Nat /\ ctx.nused \in 0..ctx.nhandles
  /\ ctx.handles \in [0..(ctx.nhandles - 1) ->
                        [vfs : Objs \cup {NoObj}, next : Int,
                         type : Types \cup {NoType},
                         ptr : (Objs \X Types) \cup {NoObj}]]
  /\ {ctx.first, ctx.last} \subseteq DOMAIN ctx.handles \cup {End}
  /\ own \in [Objs -> DOMAIN ctx.handles \cup {End}]
  /\ closing \subseteq DOMAIN ctx.handles /\ moved \subseteq closing
  /\ oob \in BOOLEAN
  /\ pool \in Seq(DOMAIN ctx.handles)

\* The list threaded through the array is the queue it is meant to be: from
\* first it leads to every number of the queue in order, and last is its end.
ListIsPool ==
  /\ NoDup(pool)
  /\ ctx.first = IF pool = <<>> THEN End ELSE Head(pool)
  /\ \A i \in DOMAIN pool :
        ctx.handles[pool[i]].next = IF i = Len(pool) THEN End ELSE pool[i + 1]
  /\ pool # <<>> => ctx.last = pool[Len(pool)]

\* Numbers are exclusive: a number the program holds leads to its object, and
\* to no other object.
HandlesExclusive ==
  /\ \A o \in Objs : own[o] # End => Valid(own[o]) /\ ctx.handles[own[o]].vfs = o
  /\ \A o, p \in Objs : own[o] # End /\ own[o] = own[p] => o = p

\* "-2 means 'handle is in use'": an entry so marked belongs to an object that
\* was made and whose hclose() has not returned, so a number that was closed is
\* rejected with EBADF.
UsedMeansInUse ==
  \A h \in DOMAIN ctx.handles :
     ctx.handles[h].next = Used => h \in closing \/ \E o \in Objs : own[o] = h

\* A number stays taken until dill_hclose returns: while the close function is
\* suspended nobody else is given the number, and it is not up for grabs.
ClosingStaysTaken ==
  \A h \in closing :
     /\ Valid(h) /\ \A i \in DOMAIN pool : pool[i] # h
     /\ \A o \in Objs : own[o] # h

\* hquery() never answers from its cache with a pointer of another type, or of
\* an object that the number led to earlier.
CacheFresh ==
  \A h \in DOMAIN ctx.handles :
     LET e == ctx.handles[h] IN Valid(h) /\ e.ptr # NoObj => e.ptr = <<e.vfs, e.type>>

\* dill_hmake never finds the list empty when it has not just grown it, although
\* growing abandons the entries that were still on it.
NeverOutOfBounds == ~oob

\* The table is sound: all of the above at once, through every interleaving of
\* hmake(), hquery(), hown(), hclose() and the close functions it suspends in.
TableSound ==
  /\ TypeOK /\ ListIsPool /\ HandlesExclusive
  /\ ClosingStaysTaken /\ CacheFresh /\ NeverOutOfBounds
=============================================================================
