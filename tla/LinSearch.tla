----------------------------- MODULE LinSearch -----------------------------
(***************************************************************************)
(* The lock-free map with linear search of mailbox/lockfree_linsearch.c    *)
(* and mailbox/faster_lockfree_linsearch.c: every search starts at entry 0,*)
(* and a key is claimed with a CAS at the first free entry.  Faster says   *)
(* which of the two is modelled; they differ in set_item only, where the   *)
(* faster one looks at the key before it tries to claim the entry, and     *)
(* returns once it has stored the value.  The other goes on to the next    *)
(* entry.                                                                  *)
(*                                                                         *)
(* A definition Name_Suffix is a faulty variant of Name, for the mutation  *)
(* runs; nothing uses it.                                                  *)
(***************************************************************************)
EXTENDS Integers, FiniteSets

CONSTANTS
  Thread,
  Key,          \* the keys the clients use; 0 marks a free entry
  Item,         \* the values they store; 0 is the value of a fresh entry
  ARRAY_SIZE,   \* number of entries (16384 in the code)
  Faster

(* No search tests for the end of the table: there must be as many entries *)
(* as keys.                                                                *)

VARIABLES
  keys,     \* *m_entries[idx].key
  values,   \* *m_entries[idx].value
  pc,       \* control point of each thread
  op,       \* the call it executes
  idx,      \* its idx
  ret       \* what its last get_item returned

table == <<keys, values>>
vars  == <<keys, values, pc, op, idx, ret>>

Entry == 0 .. ARRAY_SIZE-1

SetItem   == [kind : {"set"}, key : Key, item : Item]
GetItem   == [kind : {"get"}, key : Key]
NoOp      == [kind |-> "none"]
Operation == SetItem \cup GetItem

Init ==
  /\ keys = [e \in Entry |-> 0]
  /\ values = [e \in Entry |-> 0]
  /\ pc = [t \in Thread |-> "out"]
  /\ op = [t \in Thread |-> NoOp]
  /\ idx = [t \in Thread |-> 0]
  /\ ret = [t \in Thread |-> 0]

Goto(t, l) == pc' = [pc EXCEPT ![t] = l]

(* Where a thread starts on an entry.                                      *)
Start(o) == IF o.kind = "set" /\ ~Faster THEN "claim" ELSE "probe"

Call(t, o) ==
  /\ pc[t] = "out"
  /\ op' = [op EXCEPT ![t] = o]
  /\ Goto(t, Start(o))
  /\ UNCHANGED <<table, idx, ret>>

(* idx++.  Past the last entry the code reads what is not there.           *)
TryNextEntry(t) ==
  /\ idx' = [idx EXCEPT ![t] = idx[t] + 1]
  /\ Goto(t, IF idx[t] + 1 \in Entry THEN Start(op[t]) ELSE "overrun")
  /\ UNCHANGED <<op, ret>>

Found(t) ==
  /\ Goto(t, "value")
  /\ UNCHANGED <<op, idx, ret>>

Return(t, r) ==
  /\ ret' = [ret EXCEPT ![t] = r]
  /\ op' = [op EXCEPT ![t] = NoOp]
  /\ idx' = [idx EXCEPT ![t] = 0]
  /\ Goto(t, "out")

(* probed_key = load_SC(i), and the tests that follow.                     *)
Absent(t) == keys[idx[t]] = 0

Probe(t) ==
  /\ pc[t] = "probe"
  /\ \/ keys[idx[t]] = op[t].key /\ Found(t)
     \/ Absent(t) /\ op[t].kind = "get" /\ Return(t, 0)
     \/ Absent(t) /\ op[t].kind = "set" /\ Goto(t, "claim") /\ UNCHANGED <<op, idx, ret>>
     \/ keys[idx[t]] \notin {op[t].key, 0} /\ TryNextEntry(t)
  /\ UNCHANGED table

(* CAS_SC(i, 0, key); who fails has to look whose entry it is.             *)
CanClaim_Never(e)  == FALSE
CanClaim(e) == keys[e] = 0

Claim(t) ==
  /\ pc[t] = "claim"
  /\ IF CanClaim(idx[t])
     THEN keys' = [keys EXCEPT ![idx[t]] = op[t].key] /\ Found(t)
     ELSE Goto(t, "recheck") /\ UNCHANGED <<keys, op, idx, ret>>
  /\ UNCHANGED values

(* The load after a failed CAS.                                            *)
StolenByOther_Never(t) == FALSE
StolenByOther_Always(t) == TRUE
StolenByOther(t) == keys[idx[t]] # op[t].key

Recheck(t) ==
  /\ pc[t] = "recheck"
  /\ IF StolenByOther(t) THEN TryNextEntry(t) ELSE Found(t)
  /\ UNCHANGED table

Store(t) ==
  /\ op[t].kind = "set"
  /\ values' = [values EXCEPT ![idx[t]] = op[t].item]
  /\ IF Faster THEN Return(t, ret[t]) ELSE TryNextEntry(t)

Load(t) ==
  /\ op[t].kind = "get"
  /\ Return(t, values[idx[t]])
  /\ UNCHANGED values

UseValue(t) ==
  /\ pc[t] = "value"
  /\ Store(t) \/ Load(t)
  /\ UNCHANGED keys

Step(t) == Probe(t) \/ Claim(t) \/ Recheck(t) \/ UseValue(t)

Next == \E t \in Thread : (\E o \in Operation : Call(t, o)) \/ Step(t)

Spec == Init /\ [][Next]_vars

(* A call is run by the scheduler as long as it has steps.                 *)
FairSpec == Spec /\ \A t \in Thread : WF_vars(Step(t))

-----------------------------------------------------------------------------
TypeOK ==
  /\ keys \in [Entry -> Key \cup {0}]
  /\ values \in [Entry -> Item \cup {0}]
  /\ pc \in [Thread -> {"out", "probe", "claim", "recheck", "value"}]
  /\ op \in [Thread -> Operation \cup {NoOp}]
  /\ idx \in [Thread -> Entry]
  /\ ret \in [Thread -> Item \cup {0}]

(* wf_hists of verif_lockfree_linsearch.v: the entries in use are the first*)
(* ones, so that a search may stop at a free entry, and their keys differ. *)
EntriesWellFormed ==
  \A d, e \in Entry : d < e /\ keys[e] # 0 => keys[d] \notin {0, keys[e]}

Map == [k \in Key |-> IF \E e \in Entry : keys[e] = k
                      THEN values[CHOOSE e \in Entry : keys[e] = k]
                      ELSE 0]

Atomic == INSTANCE AtomicMap WITH map <- Map, pending <- {t \in Thread : pc[t] # "out"}

(* set_item and get_item are linearizable.                                 *)
ImplementsMap == Atomic!Spec

(* Every call returns: searches end, although none counts its probes.      *)
CallsReturn == \A t \in Thread : []<>(pc[t] = "out")

(* set_item_trace of verif_lockfree_linsearch.v: set_item works on one     *)
(* entry and leaves those after it alone.  In any state, then, a key has   *)
(* at most one entry.                                                      *)
OneEntryPerKey ==
  \A d, e \in Entry : keys[d] # 0 /\ keys[d] = keys[e] => d = e
=============================================================================
