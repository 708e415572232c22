------------------------------ MODULE BstConc ------------------------------
(***************************************************************************)
(* The search tree of progs/bst_conc.c.  A tree_t has a lock and points to *)
(* a tree, or NULL; a tree has a key, a value and two tree_t; a call goes  *)
(* down from the box that points to the root.  insert lets go of a lock    *)
(* before it reads the next pointer, without a lock; lookup goes on        *)
(* releasing the first lock it has taken and none of the others; delete    *)
(* lets go of the node it has found before pushdown_left takes it again.   *)
(* Clients delete only when no other call is in progress (delete_spec owns *)
(* the whole tree).                                                        *)
(***************************************************************************)
EXTENDS Integers, FiniteSets

CONSTANTS
  Thread,
  Node,        \* bound: the tree_t made for one treebox; none is freed
  Key, Item    \* 0 is neither

(* What the theorems suppose; Structures assumes it.                       *)
ConstantsFit ==
  /\ IsFiniteSet(Thread) /\ IsFiniteSet(Node) /\ Node # {}
  /\ IsFiniteSet(Key) /\ Key \subseteq Int \ {0}

NoOp == [kind |-> "none"]
Operation == [kind : {"insert"}, key : Key, item : Item] \cup [kind : {"lookup", "delete"}, key : Key]
NULL == [key |-> 0]   \* tgp->t = NULL
Root == [node |-> "none"]   \* the treebox; another box is a field of a tree

VARIABLES
  root,     \* *t of the treebox
  tree,     \* tgp->t of each tree_t
  lock,     \* the holder of its lock: {} or {t}
  made,     \* the tree_t that exist
  pc,       \* control point of each thread
  op,       \* the call it executes
  box,      \* its t
  tgt,      \* its tgt or tgp
  first,    \* its l in lookup
  ret       \* what its last call, a lookup, returned

shared == <<root, tree, lock, made>>
locals == <<op, box, tgt, first>>
bstVars == <<shared, pc, locals, ret>>

(* treebox_new, and any tree_t for the locals.                             *)
AnyNode == CHOOSE n \in Node : TRUE
BstInit ==
  /\ root = AnyNode
  /\ tree = [n \in Node |-> NULL]
  /\ lock = [n \in Node |-> {}]
  /\ made = {AnyNode}
  /\ pc = [t \in Thread |-> "out"]
  /\ op = [t \in Thread |-> NoOp]
  /\ box = [t \in Thread |-> Root]
  /\ tgt = [t \in Thread |-> AnyNode]
  /\ first = [t \in Thread |-> AnyNode]
  /\ ret = [t \in Thread |-> 0]

Child(n, side) == IF side = "left" THEN tree[n].left ELSE tree[n].right
Pointee(b) == IF b = Root THEN root ELSE Child(b.node, b.side)
(* *b = n, in the trees tr.                                                *)
Assigned(tr, b, n) ==
  CASE b = Root -> tr
    [] b # Root /\ b.side = "left" -> [tr EXCEPT ![b.node].left = n]
    [] b # Root /\ b.side = "right" -> [tr EXCEPT ![b.node].right = n]
RootAssigned(b, n) == IF b = Root THEN n ELSE root

(* The tree_t below n, n included.                                         *)
Below(n) ==
  LET reach[k \in 0..Cardinality(Key)] ==
        IF k = 0 THEN {n}
        ELSE UNION {IF tree[m] = NULL THEN {m} ELSE {m, tree[m].left, tree[m].right} : m \in reach[k - 1]}
  IN  reach[Cardinality(Key)]

Quiet == \A t \in Thread : pc[t] = "out"
Goto(t, l) == pc' = [pc EXCEPT ![t] = l]

Inserting == {t \in Thread : op[t].kind = "insert"}
Call(t, o) ==
  /\ pc[t] = "out"
  /\ IF o.kind = "delete" THEN Quiet ELSE \A s \in Thread : op[s].kind # "delete"
  /\ o.kind = "insert" => Cardinality(Node \ made) >= 2 * (Cardinality(Inserting) + 1)
  /\ op' = [op EXCEPT ![t] = o]
  /\ ret' = [ret EXCEPT ![t] = 0]
  /\ Goto(t, "read")
  /\ UNCHANGED <<shared, box, tgt, first>>

(* The call returns; its locals are gone.                                  *)
Return(t) ==
  /\ op' = [op EXCEPT ![t] = NoOp]
  /\ box' = [box EXCEPT ![t] = Root]
  /\ tgt' = [tgt EXCEPT ![t] = AnyNode]
  /\ first' = [first EXCEPT ![t] = AnyNode]
  /\ Goto(t, "out")

(* tgt = *t, without a lock.                                               *)
Read(t) ==
  /\ pc[t] \in {"read", "pushdown"}
  /\ tgt' = [tgt EXCEPT ![t] = Pointee(box[t])]
  /\ Goto(t, IF pc[t] = "read" THEN "acquire" ELSE "acquireTop")
  /\ UNCHANGED <<shared, op, box, first, ret>>

(* acquire(l) on the lock of tgt.                                          *)
Taken(t) == lock[tgt[t]] = {} /\ lock' = [lock EXCEPT ![tgt[t]] = {t}]
Acquire(t) ==
  /\ pc[t] = "acquire" /\ Taken(t)
  /\ IF op[t].kind = "lookup"
     THEN first' = [first EXCEPT ![t] = tgt[t]] /\ Goto(t, "compare")
     ELSE UNCHANGED first /\ Goto(t, "body")
  /\ UNCHANGED <<root, tree, made, op, box, tgt, ret>>

Released(t) == lock' = [lock EXCEPT ![tgt[t]] = {}]
Here(t) == tree[tgt[t]]

(* insert and delete: one node on, the lock is released.                   *)
Side(t) == IF op[t].key < Here(t).key THEN "left" ELSE "right"
Descend(t) ==
  /\ pc[t] = "body" /\ Here(t) # NULL /\ Here(t).key # op[t].key
  /\ box' = [box EXCEPT ![t] = [node |-> tgt[t], side |-> Side(t)]]
  /\ Released(t)
  /\ Goto(t, "read")
  /\ UNCHANGED <<root, tree, made, op, tgt, first, ret>>

-----------------------------------------------------------------------------
(* insert.                                                                 *)
(* The node becomes a tree with two new tree_t below it.                   *)
NewLeaf(t) ==
  /\ pc[t] = "body" /\ op[t].kind = "insert" /\ Here(t) = NULL
  /\ LET p1 == CHOOSE n \in Node : n \notin made
         p2 == CHOOSE n \in Node : n \notin made \cup {p1}
     IN  /\ tree' = [tree EXCEPT ![tgt[t]] = [key |-> op[t].key, value |-> op[t].item, left |-> p1, right |-> p2]]
         /\ made' = made \cup {p1, p2}
  /\ Goto(t, "store")
  /\ UNCHANGED <<root, lock, locals, ret>>

(* *t = tgt, into a node whose lock this thread does not hold.             *)
StoreBox(t) ==
  /\ pc[t] = "store"
  /\ tree' = Assigned(tree, box[t], tgt[t]) /\ root' = RootAssigned(box[t], tgt[t])
  /\ Released(t)
  /\ Return(t)
  /\ UNCHANGED <<made, ret>>

Replace(t) ==
  /\ pc[t] = "body" /\ op[t].kind = "insert" /\ Here(t).key = op[t].key
  /\ tree' = [tree EXCEPT ![tgt[t]].value = op[t].item]
  /\ Released(t)
  /\ Return(t)
  /\ UNCHANGED <<root, made, ret>>

-----------------------------------------------------------------------------
(* lookup.                                                                 *)
LookupDescend(t) ==
  /\ pc[t] = "compare" /\ Here(t) # NULL /\ Here(t).key # op[t].key
  /\ tgt' = [tgt EXCEPT ![t] = Child(tgt[t], Side(t))]
  /\ Goto(t, "acquireNext")
  /\ UNCHANGED <<shared, op, box, first, ret>>

(* acquire(l1), p = tgt->t; release(l).                                    *)
LookupAcquire(t) ==
  /\ pc[t] = "acquireNext" /\ lock[tgt[t]] = {}
  /\ lock' = [lock EXCEPT ![tgt[t]] = {t}, ![first[t]] = {}]
  /\ Goto(t, "compare")
  /\ UNCHANGED <<root, tree, made, locals, ret>>

LookupReturn(t) ==
  /\ pc[t] = "compare" /\ (Here(t) = NULL \/ Here(t).key = op[t].key)
  /\ ret' = [ret EXCEPT ![t] = IF Here(t) = NULL THEN 0 ELSE Here(t).value]
  /\ lock' = [lock EXCEPT ![first[t]] = {}]
  /\ Return(t)
  /\ UNCHANGED <<root, tree, made>>

-----------------------------------------------------------------------------
(* delete, and pushdown_left: the node goes down to the left until there   *)
(* is nothing to its right.                                                *)
DeleteNothing(t) ==
  /\ pc[t] = "body" /\ op[t].kind = "delete" /\ Here(t) = NULL
  /\ Released(t)
  /\ Return(t)
  /\ UNCHANGED <<root, tree, made, ret>>

DeleteFound(t) ==
  /\ pc[t] = "body" /\ op[t].kind = "delete" /\ Here(t).key = op[t].key
  /\ Released(t)
  /\ Goto(t, "pushdown")
  /\ UNCHANGED <<root, tree, made, locals, ret>>

AcquireTop(t) ==
  /\ pc[t] = "acquireTop" /\ Taken(t)
  /\ Goto(t, "acquireRight")
  /\ UNCHANGED <<root, tree, made, locals, ret>>

AcquireRight(t) ==
  /\ pc[t] = "acquireRight" /\ lock[Here(t).right] = {}
  /\ lock' = [lock EXCEPT ![Here(t).right] = {t}]
  /\ Goto(t, "turn")
  /\ UNCHANGED <<root, tree, made, locals, ret>>

(* Both locks are released (their nodes are tgp and tgq).                  *)
BothReleased(t) == lock' = [lock EXCEPT ![tgt[t]] = {}, ![Here(t).right] = {}]

(* q == NULL: *t = p->left, and p is freed.                                *)
Unlink(t) ==
  /\ pc[t] = "turn" /\ tree[Here(t).right] = NULL
  /\ tree' = [Assigned(tree, box[t], Here(t).left) EXCEPT ![tgt[t]] = NULL]
  /\ root' = RootAssigned(box[t], Here(t).left)
  /\ BothReleased(t)
  /\ Return(t)
  /\ UNCHANGED <<made, ret>>

(* turn_left, which takes and releases the lock of mid; t = &q->left.      *)
Turned_MidStays(l, r) == [tree EXCEPT ![r].left = l]
Turned(l, r) == [tree EXCEPT ![l].right = tree[r].left, ![r].left = l]

TurnLeft(t) ==
  /\ pc[t] = "turn" /\ tree[Here(t).right] # NULL
  /\ LET r == Here(t).right IN
       /\ lock[tree[r].left] = {}
       /\ tree' = Assigned(Turned(tgt[t], r), box[t], r) /\ root' = RootAssigned(box[t], r)
       /\ box' = [box EXCEPT ![t] = [node |-> r, side |-> "left"]]
  /\ BothReleased(t)
  /\ Goto(t, "pushdown")
  /\ UNCHANGED <<made, op, tgt, first, ret>>

-----------------------------------------------------------------------------
(* treebox_free, then treebox_new: tree_free waits for every lock.         *)
TreeboxFree ==
  /\ Quiet /\ tree[root] # NULL
  /\ \A n \in Below(root) : lock[n] = {}
  /\ root' = AnyNode
  /\ tree' = [n \in Node |-> NULL] /\ lock' = [n \in Node |-> {}] /\ made' = {AnyNode}
  /\ UNCHANGED <<pc, locals, ret>>

Step(t) ==
  \/ Read(t) \/ Acquire(t) \/ Descend(t) \/ NewLeaf(t) \/ StoreBox(t) \/ Replace(t)
  \/ LookupDescend(t) \/ LookupAcquire(t) \/ LookupReturn(t)
  \/ DeleteNothing(t) \/ DeleteFound(t) \/ AcquireTop(t) \/ AcquireRight(t) \/ Unlink(t) \/ TurnLeft(t)

BstNext == TreeboxFree \/ \E t \in Thread : (\E o \in Operation : Call(t, o)) \/ Step(t)
BstSpec == BstInit /\ [][BstNext]_bstVars

-----------------------------------------------------------------------------
(* The tree is a search tree, also in the middle of a call: no tree_t hangs*)
(* from two boxes, and keys are in order (insert's descent between two     *)
(* locks, and the rotations of turn_left).                                 *)
SearchTree ==
  LET all == Below(root)
      full == {n \in all : tree[n] # NULL}
  IN  /\ Cardinality(all) = 2 * Cardinality(full) + 1
      /\ \A n \in full : /\ \A m \in Below(tree[n].left) : tree[m] # NULL => tree[m].key < tree[n].key
                         /\ \A m \in Below(tree[n].right) : tree[m] # NULL => tree[m].key > tree[n].key

(* An insert has taken effect when its leaf is there, before it returns.   *)
Map == [k \in Key |-> LET at == {n \in Below(root) : tree[n].key = k}
                      IN  IF at = {} THEN 0 ELSE tree[CHOOSE n \in at : TRUE].value]
Pending == [t \in Thread |-> IF pc[t] = "store" THEN NoOp ELSE op[t]]

Abstract ==
  INSTANCE AtomicDict WITH
    Kinds <- {"insert", "lookup", "delete"}, MayClear <- TRUE, map <- Map, pending <- Pending

(* Concurrent inserts and lookups are linearizable, whatever locks the     *)
(* lookups keep; a delete removes its key and nothing else.                *)
ImplementsDict == Abstract!Spec

(* What lookup_spec says (verif_bst_conc.v:293, as insert_spec and         *)
(* delete_spec): the call gives back the tree that it was given, with no   *)
(* lock held that no call in progress holds.                               *)
LocksFree ==
  \A n \in Below(root) : lock[n] # {} => \E t \in Thread : pc[t] # "out" /\ lock[n] = {t}
=============================================================================
