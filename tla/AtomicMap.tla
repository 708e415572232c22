----------------------------- MODULE AtomicMap -----------------------------
(***************************************************************************)
(* The atomic map that atomics/hashtable_atomic.c implements: every call   *)
(* takes effect in one step before it returns.  A key without an item maps *)
(* to 0.                                                                   *)
(***************************************************************************)
EXTENDS Integers

CONSTANTS Thread, Key, Item

Op == [kind : {"set", "add"}, key : Key, item : Item] \cup [kind : {"get"}, key : Key]

NoOp == [kind |-> "none"]

VARIABLES
  map,      \* map[k]: the item of key k, or 0
  pending,  \* the threads in a call that has not taken effect
  op,       \* op[t]: the call t is in
  ret       \* ret[t]: what its last call returned

vars == <<map, pending, op, ret>>

Init ==
  /\ map = [k \in Key |-> 0]
  /\ pending = {}
  /\ op = [t \in Thread |-> NoOp]
  /\ ret = [t \in Thread |-> 0]

Call(t, o) ==
  /\ t \notin pending
  /\ pending' = pending \cup {t}
  /\ op' = [op EXCEPT ![t] = o]
  /\ UNCHANGED <<map, ret>>

(* set replaces the item; add does when there is none, and says so.        *)
Set(t) ==
  /\ op[t].kind = "set"
  /\ map' = [map EXCEPT ![op[t].key] = op[t].item]
  /\ UNCHANGED ret

Get(t) ==
  /\ op[t].kind = "get"
  /\ ret' = [ret EXCEPT ![t] = map[op[t].key]]
  /\ UNCHANGED map

Add(t) ==
  /\ op[t].kind = "add"
  /\ IF map[op[t].key] = 0
     THEN /\ map' = [map EXCEPT ![op[t].key] = op[t].item]
          /\ ret' = [ret EXCEPT ![t] = 1]
     ELSE /\ ret' = [ret EXCEPT ![t] = 0]
          /\ UNCHANGED map

TakeEffect(t) ==
  /\ t \in pending
  /\ pending' = pending \ {t}
  /\ Set(t) \/ Get(t) \/ Add(t)
  /\ op' = [op EXCEPT ![t] = NoOp]

Next == \E t \in Thread : (\E o \in Op : Call(t, o)) \/ TakeEffect(t)

Spec == Init /\ [][Next]_vars
=============================================================================
