---------------------------- MODULE LockCoupling ----------------------------
(***************************************************************************)
(* The set of progs/lock_coupling.c: a sorted linked list with a lock in   *)
(* every node.  A search goes down the list hand over hand: it takes the   *)
(* lock of the next node before it lets go of the one behind, and add and  *)
(* remove work between the two locks with which it ends.  The locks are    *)
(* not reentrant (concurrency/threads.c: a CAS from 0 to 1).               *)
(*                                                                         *)
(* A definition Name_Suffix is a faulty variant of Name, for the mutation  *)
(* runs; nothing uses it.                                                  *)
(***************************************************************************)
EXTENDS Integers, FiniteSets

CONSTANTS
  Thread,
  Node,          \* the nodes malloc can return: with none left, it fails
  Head, Last,    \* the sentinels
  AddElem,       \* the elements clients add
  RemoveElem     \* the elements they remove

Elem == AddElem \cup RemoveElem

VARIABLES
  val, next,   \* the fields of each node
  lock,        \* the holder of each node's lock: {} or {t}
  alive,       \* the nodes that are allocated
  pc,          \* control point of each thread
  op,          \* the call it executes
  pred, curr,  \* its n1 and n2 or n3
  ret          \* the result of its last call, 0 until there is one

heap  == <<val, next, lock, alive>>
locals == <<pc, op, pred, curr, ret>>
vars == <<heap, locals>>

NoOp == [kind |-> "none"]
Operation == [kind : {"add"}, key : AddElem] \cup [kind : {"remove"}, key : RemoveElem]

(* The values of the sentinels, below and above every element.             *)
Least    == (CHOOSE e \in Elem : \A f \in Elem : e <= f) - 1
Greatest == (CHOOSE e \in Elem : \A f \in Elem : f <= e) + 1

(* The empty list: the code leaves it to its client to make the sentinels. *)
Init ==
  /\ val = [n \in Node |-> IF n = Last THEN Greatest ELSE Least]
  /\ next = [n \in Node |-> Last]
  /\ lock = [n \in Node |-> {}]
  /\ alive = {Head, Last}
  /\ pc = [t \in Thread |-> "out"]
  /\ op = [t \in Thread |-> NoOp]
  /\ pred = [t \in Thread |-> Head]
  /\ curr = [t \in Thread |-> Head]
  /\ ret = [t \in Thread |-> 0]

Goto(t, l) == pc' = [pc EXCEPT ![t] = l]

Call(t, o) ==
  /\ pc[t] = "out"
  /\ op' = [op EXCEPT ![t] = o]
  /\ pred' = [pred EXCEPT ![t] = Head]
  /\ ret' = [ret EXCEPT ![t] = 0]
  /\ Goto(t, "first")
  /\ UNCHANGED <<heap, curr>>

-----------------------------------------------------------------------------
(* locate.                                                                 *)

(* acquire(l1), and curr = pred->next.                                     *)
AcquireFirst(t) ==
  /\ pc[t] = "first"
  /\ lock[Head] = {}
  /\ lock' = [lock EXCEPT ![Head] = {t}]
  /\ curr' = [curr EXCEPT ![t] = next[Head]]
  /\ Goto(t, "second")
  /\ UNCHANGED <<val, next, alive, op, pred, ret>>

(* acquire(l2) in locate, and acquire(l) in del_node, on the lock of the   *)
(* same node; del_node goes on to free it.                                 *)
AcquireCurr(t) ==
  /\ pc[t] \in {"second", "delete"}
  /\ lock[curr[t]] = {}
  /\ lock' = [lock EXCEPT ![curr[t]] = {t}]
  /\ IF pc[t] = "second"
     THEN Goto(t, "compare") /\ UNCHANGED alive
     ELSE Goto(t, "release") /\ alive' = alive \ {curr[t]}
  /\ UNCHANGED <<val, next, op, pred, curr, ret>>

(* The body of the loop: release(l1), then one node on.                    *)
Behind_Curr(t) == curr[t]
Behind(t) == pred[t]

Further_PastEqual(t) == val[curr[t]] <= op[t].key /\ curr[t] # Last
Further(t) == val[curr[t]] < op[t].key

Advance(t) ==
  /\ pc[t] = "compare"
  /\ Further(t)
  /\ lock' = [lock EXCEPT ![Behind(t)] = {}]
  /\ pred' = [pred EXCEPT ![t] = curr[t]]
  /\ curr' = [curr EXCEPT ![t] = next[curr[t]]]
  /\ Goto(t, "second")
  /\ UNCHANGED <<val, next, alive, op, ret>>

Located(t) == pc[t] = "compare" /\ ~Further(t)

-----------------------------------------------------------------------------
(* add and remove, from where locate returns.                              *)

Present(t) == val[curr[t]] = op[t].key

(* new_node(e), and the two stores that link it in.                        *)
Linked_Behind(t) == next[curr[t]]
Linked_Value(t)  == val[curr[t]]
Linked(t) == curr[t]

Insert(t) ==
  /\ Located(t)
  /\ op[t].kind = "add"
  /\ ~Present(t)
  /\ \E n \in Node \ alive :
       /\ alive' = alive \cup {n}
       /\ val' = [val EXCEPT ![n] = op[t].key]
       /\ next' = [next EXCEPT ![n] = Linked(t), ![pred[t]] = n]
  /\ ret' = [ret EXCEPT ![t] = 1]
  /\ Goto(t, "release")
  /\ UNCHANGED <<lock, op, pred, curr>>

(* n1->next = n3; then del_node(n2), which starts with acquire(n2->lock).  *)
Unlink(t) ==
  /\ Located(t)
  /\ op[t].kind = "remove"
  /\ Present(t)
  /\ next' = [next EXCEPT ![pred[t]] = next[curr[t]]]
  /\ ret' = [ret EXCEPT ![t] = 1]
  /\ Goto(t, "delete")
  /\ UNCHANGED <<val, lock, alive, op, pred, curr>>

Nothing(t) ==
  /\ Located(t)
  /\ Present(t) <=> op[t].kind = "add"
  /\ ret' = [ret EXCEPT ![t] = 0]
  /\ Goto(t, "release")
  /\ UNCHANGED <<heap, op, pred, curr>>

ReleasePred(t) ==
  /\ pc[t] = "release"
  /\ lock' = [lock EXCEPT ![pred[t]] = {}]
  /\ Goto(t, "releaseCurr")
  /\ UNCHANGED <<val, next, alive, op, pred, curr, ret>>

ReleaseCurr(t) ==
  /\ pc[t] = "releaseCurr"
  /\ lock' = [lock EXCEPT ![curr[t]] = {}]
  /\ op' = [op EXCEPT ![t] = NoOp]
  /\ Goto(t, "out")
  /\ UNCHANGED <<val, next, alive, pred, curr, ret>>

Step(t) ==
  \/ AcquireFirst(t) \/ AcquireCurr(t) \/ Advance(t)
  \/ Insert(t) \/ Unlink(t) \/ Nothing(t)
  \/ ReleasePred(t) \/ ReleaseCurr(t)

Next == \E t \in Thread : (\E o \in Operation : Call(t, o)) \/ Step(t)

Spec == Init /\ [][Next]_vars

(* A thread that can go on without interruption does.  Nothing is assumed  *)
(* about which of several threads gets a lock.                             *)
FairSpec == Spec /\ \A t \in Thread : WF_vars(Step(t))

-----------------------------------------------------------------------------
TypeOK ==
  /\ val \in [Node -> Elem \cup {Least, Greatest}]
  /\ next \in [Node -> Node]
  /\ lock \in [Node -> SUBSET Thread]
  /\ alive \in SUBSET Node
  /\ pc \in [Thread -> {"out", "first", "second", "compare", "delete",
                        "release", "releaseCurr"}]
  /\ op \in [Thread -> Operation \cup {NoOp}]
  /\ pred \in [Thread -> Node]
  /\ curr \in [Thread -> Node]
  /\ ret \in [Thread -> {0, 1}]

(* The nodes that a remove has unlinked.                                   *)
Removed == {curr[t] : t \in {s \in Thread : pc[s] = "delete"}}

Listed == alive \ Removed

(* The list: from each of its nodes the next is in it and has a greater    *)
(* value, as far as Last, and no two point to the same.                    *)
ListSorted ==
  /\ \A n \in Listed \ {Last} : next[n] \in Listed /\ val[n] < val[next[n]]
  /\ \A m, n \in Listed \ {Last} : next[m] = next[n] => m = n

(* What locate promises (locate_spec in verif_lock_coupling.v): the caller *)
(* holds two locks, their nodes are neighbours in the list, and e belongs  *)
(* between them.                                                           *)
LocateCorrect ==
  \A t \in Thread : Located(t) =>
    /\ {pred[t], curr[t]} \subseteq Listed
    /\ lock[pred[t]] = {t} /\ lock[curr[t]] = {t}
    /\ next[pred[t]] = curr[t]
    /\ val[pred[t]] < op[t].key /\ op[t].key <= val[curr[t]]

Abstract ==
  INSTANCE AtomicDict WITH
    Key <- Elem, Item <- {1}, Kinds <- {"add", "remove"}, MayClear <- FALSE,
    map <- [e \in Elem |-> IF \E n \in Listed \ {Head, Last} : val[n] = e THEN 1 ELSE 0],
    pending <- [t \in Thread |-> IF pc[t] \in {"first", "second", "compare"} THEN op[t] ELSE NoOp]

(* add and remove are linearizable (add_spec and remove_spec).             *)
ImplementsSet == Abstract!Spec

(* However the threads follow one another down the list, they never wait   *)
(* for each other in a circle: of the calls in progress some returns,      *)
(* unless a thread waits for itself in del_node.                           *)
SomeReturns ==
  (\A t \in Thread : pc[t] # "out") ~> (\E t \in Thread : pc[t] \in {"out", "delete"})

(* The postcondition of remove_spec in verif_lock_coupling.v: remove of an *)
(* element that is in the set returns 1.                                   *)
RemoveReturns == \A t \in Thread : pc[t] = "delete" ~> pc[t] = "out" /\ ret[t] = 1
=============================================================================
