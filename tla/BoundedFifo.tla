---------------------------- MODULE BoundedFifo ----------------------------
(***************************************************************************)
(* The queue that progs/conc_queue.c promises its clients: first in first  *)
(* out, of bounded length, every call taking effect in one step before it  *)
(* returns.  An add waits for room and a remove for an item; a tryremove   *)
(* does not wait.                                                          *)
(***************************************************************************)
EXTENDS Integers, Sequences

CONSTANTS Thread, Item, SIZE, NULL

Op == [kind : {"add"}, item : Item] \cup [kind : {"remove", "tryremove"}]

NoOp == [kind |-> "none"]

VARIABLES
  queue,    \* the items, oldest first
  pending,  \* pending[t]: the call of t that has not taken effect, or NoOp
  ret       \* ret[t]: what its last remove or tryremove returned

vars == <<queue, pending, ret>>

Init ==
  /\ queue = <<>>
  /\ pending = [t \in Thread |-> NoOp]
  /\ ret = [t \in Thread |-> NULL]

Call(t, o) ==
  /\ pending[t] = NoOp
  /\ pending' = [pending EXCEPT ![t] = o]
  /\ UNCHANGED <<queue, ret>>

Add(t) ==
  /\ pending[t].kind = "add"
  /\ Len(queue) < SIZE
  /\ queue' = Append(queue, pending[t].item)
  /\ UNCHANGED ret

Remove(t) ==
  /\ pending[t].kind \in {"remove", "tryremove"}
  /\ queue # <<>>
  /\ queue' = Tail(queue)
  /\ ret' = [ret EXCEPT ![t] = Head(queue)]

FindEmpty(t) ==
  /\ pending[t].kind = "tryremove"
  /\ queue = <<>>
  /\ ret' = [ret EXCEPT ![t] = NULL]
  /\ UNCHANGED queue

TakeEffect(t) ==
  /\ Add(t) \/ Remove(t) \/ FindEmpty(t)
  /\ pending' = [pending EXCEPT ![t] = NoOp]

Next == \E t \in Thread : (\E o \in Op : Call(t, o)) \/ TakeEffect(t)

Spec == Init /\ [][Next]_vars
=============================================================================
