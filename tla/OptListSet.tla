----------------------------- MODULE OptListSet -----------------------------
(***************************************************************************)
(* The set of mailbox/oplistset.c: a sorted linked list with a lock in     *)
(* every node and atomic links.  A search takes no locks; it locks the two *)
(* nodes with which it ends and then validates them, by going down the     *)
(* list again, and starts over if they are not neighbours any more.        *)
(* Removed nodes are not freed: their links stay as they were.             *)
(***************************************************************************)
EXTENDS Integers, FiniteSets

CONSTANTS
  Thread,
  Node,          \* bound: the nodes malloc can return
  Head, Last,    \* the sentinels
  AddElem,       \* the elements clients add
  RemoveElem     \* the elements they remove

Elem == AddElem \cup RemoveElem

VARIABLES
  val, next,   \* the fields of each node
  lock,        \* the holder of each node's lock: {} or {t}
  alive,       \* the nodes that are allocated
  pc,          \* control point of each thread
  op,          \* the call it executes
  pred, curr,  \* its pred and curr, then n1 and n2 or n3
  succ,        \* its succ in validate, its n3 in remove
  ret          \* the result of its last call, 0 until there is one

heap == <<val, next, lock, alive>>
vars == <<heap, pc, op, pred, curr, succ, ret>>

NoOp == [kind |-> "none"]
Operation == [kind : {"add"}, key : AddElem] \cup [kind : {"remove"}, key : RemoveElem]
Least    == (CHOOSE e \in Elem : \A f \in Elem : e <= f) - 1
Greatest == (CHOOSE e \in Elem : \A f \in Elem : f <= e) + 1

(* The empty list: the code leaves it to its client to make the sentinels. *)
Init ==
  /\ val = [n \in Node |-> IF n = Last THEN Greatest ELSE Least]
  /\ next = [n \in Node |-> Last]
  /\ lock = [n \in Node |-> {}]
  /\ alive = {Head, Last}
  /\ pc = [t \in Thread |-> "out"]
  /\ op = [t \in Thread |-> NoOp]
  /\ pred = [t \in Thread |-> Head]
  /\ curr = [t \in Thread |-> Head]
  /\ succ = [t \in Thread |-> Head]
  /\ ret = [t \in Thread |-> 0]

Goto(t, l) == pc' = [pc EXCEPT ![t] = l]

(* add is called while every call in progress can have its node.           *)
Adding == {t \in Thread : op[t].kind = "add"}
Call(t, o) ==
  /\ pc[t] = "out"
  /\ o.kind = "add" => Cardinality(Node \ alive) > Cardinality(Adding)
  /\ op' = [op EXCEPT ![t] = o]
  /\ ret' = [ret EXCEPT ![t] = 0]
  /\ Goto(t, "search")
  /\ UNCHANGED <<heap, pred, curr, succ>>

-----------------------------------------------------------------------------
(* locate: one load of a link per step.                                    *)
Search(t) ==
  /\ pc[t] = "search"
  /\ curr[t] = Head \/ val[curr[t]] < op[t].key
  /\ pred' = [pred EXCEPT ![t] = curr[t]]
  /\ curr' = [curr EXCEPT ![t] = next[curr[t]]]
  /\ UNCHANGED <<heap, pc, op, succ, ret>>

(* acquire(l1), when the search has ended.                                 *)
AcquireFirst(t) ==
  /\ pc[t] = "search"
  /\ curr[t] # Head /\ val[curr[t]] >= op[t].key
  /\ lock[pred[t]] = {}
  /\ lock' = [lock EXCEPT ![pred[t]] = {t}]
  /\ Goto(t, "second")
  /\ UNCHANGED <<val, next, alive, op, pred, curr, succ, ret>>

(* acquire(l2); validate starts at the head.                               *)
AcquireSecond(t) ==
  /\ pc[t] = "second"
  /\ lock[curr[t]] = {}
  /\ lock' = [lock EXCEPT ![curr[t]] = {t}]
  /\ succ' = [succ EXCEPT ![t] = Head]
  /\ Goto(t, "validate")
  /\ UNCHANGED <<val, next, alive, op, pred, curr, ret>>

Follow(t) ==
  /\ pc[t] = "validate"
  /\ val[succ[t]] < op[t].key
  /\ succ' = [succ EXCEPT ![t] = next[@]]
  /\ UNCHANGED <<heap, pc, op, pred, curr, ret>>

(* The last load of validate, and its result.                              *)
Valid_AnyPred(t) == succ[t] = curr[t]
Valid(t) == succ[t] = curr[t] /\ next[pred[t]] = curr[t]

Validated(t) ==
  /\ pc[t] = "validate"
  /\ val[succ[t]] >= op[t].key
  /\ Goto(t, IF Valid(t) THEN "located" ELSE "retry")
  /\ UNCHANGED <<heap, op, pred, curr, succ, ret>>

-----------------------------------------------------------------------------
(* add and remove, from where locate returns.                              *)
Present(t) == val[curr[t]] = op[t].key

(* new_node(e, n3), and the store that links it in.  No node is freed, so  *)
(* that each is a fresh one.                                               *)
Insert(t) ==
  /\ pc[t] = "located" /\ op[t].kind = "add" /\ ~Present(t)
  /\ LET n == CHOOSE m \in Node : m \notin alive IN
       /\ alive' = alive \cup {n}
       /\ val' = [val EXCEPT ![n] = op[t].key]
       /\ next' = [next EXCEPT ![n] = curr[t], ![pred[t]] = n]
  /\ ret' = [ret EXCEPT ![t] = 1]
  /\ Goto(t, "release")
  /\ UNCHANGED <<lock, op, pred, curr, succ>>

LoadNext(t) ==
  /\ pc[t] = "located" /\ op[t].kind = "remove" /\ Present(t)
  /\ succ' = [succ EXCEPT ![t] = next[curr[t]]]
  /\ Goto(t, "unlink")
  /\ UNCHANGED <<heap, op, pred, curr, ret>>

Unlink(t) ==
  /\ pc[t] = "unlink"
  /\ next' = [next EXCEPT ![pred[t]] = succ[t]]
  /\ ret' = [ret EXCEPT ![t] = 1]
  /\ Goto(t, "release")
  /\ UNCHANGED <<val, lock, alive, op, pred, curr, succ>>

Nothing(t) ==
  /\ pc[t] = "located" /\ (Present(t) <=> op[t].kind = "add")
  /\ ret' = [ret EXCEPT ![t] = 0]
  /\ Goto(t, "release")
  /\ UNCHANGED <<heap, op, pred, curr, succ>>

(* release(l1) and release(l2), at the end of the call or of a try.        *)
ReleasePred(t) ==
  /\ pc[t] \in {"release", "retry"}
  /\ lock' = [lock EXCEPT ![pred[t]] = {}]
  /\ Goto(t, IF pc[t] = "release" THEN "releaseCurr" ELSE "retryCurr")
  /\ UNCHANGED <<val, next, alive, op, pred, curr, succ, ret>>

Unlocked_OnSuccess(t) == IF pc[t] = "releaseCurr" THEN {curr[t]} ELSE {}
Unlocked(t) == {curr[t]}

ReleaseCurr(t) ==
  /\ pc[t] \in {"releaseCurr", "retryCurr"}
  /\ lock' = [n \in Node |-> IF n \in Unlocked(t) THEN {} ELSE lock[n]]
  /\ IF pc[t] = "releaseCurr"
     THEN op' = [op EXCEPT ![t] = NoOp] /\ Goto(t, "out")
     ELSE UNCHANGED op /\ Goto(t, "search")
  /\ pred' = [pred EXCEPT ![t] = Head]
  /\ curr' = [curr EXCEPT ![t] = Head]
  /\ succ' = [succ EXCEPT ![t] = Head]
  /\ UNCHANGED <<val, next, alive, ret>>

Step(t) ==
  \/ Search(t) \/ AcquireFirst(t) \/ AcquireSecond(t) \/ Follow(t) \/ Validated(t)
  \/ Insert(t) \/ LoadNext(t) \/ Unlink(t) \/ Nothing(t)
  \/ ReleasePred(t) \/ ReleaseCurr(t)

Next == \E t \in Thread : (\E o \in Operation : Call(t, o)) \/ Step(t)
Spec == Init /\ [][Next]_vars
FairSpec == Spec /\ \A t \in Thread : WF_vars(Step(t))

-----------------------------------------------------------------------------
(* The nodes that are reached from the head, those that every set has that *)
(* has the head and follows the links: the set is that of their values.    *)
Closed == {S \in SUBSET Node : Head \in S /\ \A n \in S \ {Last} : next[n] \in S}
Listed == {n \in Node : \A S \in Closed : n \in S}

(* Every node goes on to a greater value, those that were removed too, so  *)
(* that a search that is on one of them still ends (locate, validate); the *)
(* nodes that locate returns are locked and were in the list together.     *)
LocateCorrect ==
  /\ \A n \in alive \ {Last} : next[n] \in alive /\ val[n] < val[next[n]]
  /\ \A t \in Thread : pc[t] \in {"located", "unlink"} =>
       /\ lock[pred[t]] = {t} /\ lock[curr[t]] = {t} /\ next[pred[t]] = curr[t]
       /\ val[pred[t]] < op[t].key /\ op[t].key <= val[curr[t]]

(* add and remove are linearizable: a call takes effect with its store, or *)
(* with the end of its validation.                                         *)
Abstract ==
  INSTANCE AtomicDict WITH
    Key <- Elem, Item <- {1}, Kinds <- {"add", "remove"}, MayClear <- FALSE,
    map <- [e \in Elem |-> IF \E n \in Listed \ {Head, Last} : val[n] = e THEN 1 ELSE 0],
    pending <- [t \in Thread |-> IF pc[t] \in {"out", "release", "releaseCurr"} THEN NoOp ELSE op[t]]
ImplementsSet == Abstract!Spec

(* A try that fails is one that another call's effect made fail, and two   *)
(* threads that lock two nodes each never wait for each other in a circle: *)
(* of the calls in progress some returns.                                  *)
SomeReturns == (\A t \in Thread : pc[t] # "out") ~> (\E t \in Thread : pc[t] = "out")
=============================================================================
