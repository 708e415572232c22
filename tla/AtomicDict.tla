----------------------------- MODULE AtomicDict -----------------------------
(***************************************************************************)
(* The map that the trees of progs/bst.c and progs/bst_conc.c implement    *)
(* (insert, lookup and delete at the top of verif_bst_conc.v), and the set *)
(* that the lists of progs/lock_coupling.c and mailbox/oplistset.c do (add *)
(* and remove return 1 if they changed it): every call takes effect in one *)
(* step before it returns.  0 stands for no value, 1 for a member.         *)
(***************************************************************************)
EXTENDS Integers

CONSTANTS
  Thread, Key, Item,
  Kinds,      \* the functions that there are
  MayClear    \* whether the owner may free it all and start with nothing

NoOp == [kind |-> "none"]
Op == [kind : Kinds \cap {"insert"}, key : Key, item : Item] \cup [kind : Kinds \ {"insert"}, key : Key]

VARIABLES
  map,
  pending,  \* pending[t]: the call of t that has not taken effect, or NoOp
  ret       \* ret[t]: what its last lookup, add or remove returned

vars == <<map, pending, ret>>

Init ==
  /\ map = [k \in Key |-> 0]
  /\ pending = [t \in Thread |-> NoOp]
  /\ ret = [t \in Thread |-> 0]

Call(t, o) ==
  /\ pending[t] = NoOp
  /\ pending' = [pending EXCEPT ![t] = o]
  /\ ret' = [ret EXCEPT ![t] = 0]
  /\ UNCHANGED map

Maps(k, item) == map' = [map EXCEPT ![k] = item]
Returns(t, r) == ret' = [ret EXCEPT ![t] = r]

Effect(t, o) ==
  CASE o.kind = "insert" -> Maps(o.key, o.item) /\ UNCHANGED ret
    [] o.kind = "lookup" -> Returns(t, map[o.key]) /\ UNCHANGED map
    [] o.kind = "delete" -> Maps(o.key, 0) /\ UNCHANGED ret
    [] o.kind = "add"    -> Maps(o.key, 1) /\ Returns(t, 1 - map[o.key])
    [] o.kind = "remove" -> Maps(o.key, 0) /\ Returns(t, map[o.key])

TakeEffect(t) ==
  /\ pending[t] # NoOp
  /\ Effect(t, pending[t])
  /\ pending' = [pending EXCEPT ![t] = NoOp]

Clear ==
  /\ MayClear
  /\ \A t \in Thread : pending[t] = NoOp
  /\ map' = [k \in Key |-> 0]
  /\ UNCHANGED <<pending, ret>>

Next == Clear \/ \E t \in Thread : (\E o \in Op : Call(t, o)) \/ TakeEffect(t)
Spec == Init /\ [][Next]_vars
=============================================================================
