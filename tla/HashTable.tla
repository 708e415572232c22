----------------------------- MODULE HashTable -----------------------------
(***************************************************************************)
(* The lock-free hash table of atomics/hashtable_atomic.c, open addressing *)
(* with linear probing.  An entry is an atomic key and an atomic value,    *)
(* both 0 at first; keys are claimed with a CAS and never removed.  Each   *)
(* step is one atomic operation on the table with the local code up to the *)
(* next; entries are read long before they are acted on, while other       *)
(* threads claim and fill them.                                            *)
(*                                                                         *)
(* A definition Name_Suffix is a faulty variant of Name, for the mutation  *)
(* runs; nothing uses it.                                                  *)
(***************************************************************************)
EXTENDS Integers, FiniteSets

CONSTANTS
  Thread,
  Key,         \* the keys the clients use; 0 marks a free entry
  Item,        \* the values they store; 0 is the value of a fresh entry
  ARRAY_SIZE   \* number of entries (16384 in the code, a power of 2)

ASSUME SizeAssumption == ARRAY_SIZE \in Nat \ {0}
ASSUME KeyAssumption  == /\ Key \subseteq Int \ {0}
                         /\ IsFiniteSet(Key)
ASSUME ItemAssumption == Item \subseteq Int

(* Nothing in the code handles a full table: a client that uses more keys  *)
(* than there are entries waits forever.                                   *)
ASSUME EnoughEntries  == Cardinality(Key) <= ARRAY_SIZE

VARIABLES
  keys,     \* *m_entries[idx].key
  values,   \* *m_entries[idx].value
  pc,       \* control point of each thread
  op,       \* the call it executes
  idx,      \* its idx, masked
  ret       \* what its last call returned

table == <<keys, values>>
vars  == <<keys, values, pc, op, idx, ret>>

Entry == 0 .. ARRAY_SIZE-1

SetItem   == [kind : {"set"}, key : Key, item : Item]
GetItem   == [kind : {"get"}, key : Key]
AddItem   == [kind : {"add"}, key : Key, item : Item]
NoOp      == [kind |-> "none"]
Operation == SetItem \cup GetItem \cup AddItem

Multiplier == 654435761

(* integer_hash(key) & (ARRAY_SIZE - 1): the product of unsigned numbers   *)
(* modulo 2^32, then modulo ARRAY_SIZE.                                    *)
Home(key) == ((key % ARRAY_SIZE) * (Multiplier % ARRAY_SIZE)) % ARRAY_SIZE

(* idx++ and the mask of the next round.                                   *)
NextEntry_OffEnd(e) == e + 1
NextEntry_ByTwo(e)  == (e + 2) % ARRAY_SIZE
NextEntry_NoMask(e) == IF e = ARRAY_SIZE-1 THEN e ELSE e + 1
NextEntry(e) == IF e = ARRAY_SIZE-1 THEN 0 ELSE e + 1

(* init_table.                                                             *)
Init ==
  /\ keys = [e \in Entry |-> 0]
  /\ values = [e \in Entry |-> 0]
  /\ pc = [t \in Thread |-> "out"]
  /\ op = [t \in Thread |-> NoOp]
  /\ idx = [t \in Thread |-> 0]
  /\ ret = [t \in Thread |-> 0]

Goto(t, l) == pc' = [pc EXCEPT ![t] = l]

Call(t, o) ==
  /\ pc[t] = "out"
  /\ op' = [op EXCEPT ![t] = o]
  /\ idx' = [idx EXCEPT ![t] = Home(o.key)]
  /\ Goto(t, "probe")
  /\ UNCHANGED <<table, ret>>

(* The entry holds another key, or was lost to one: continue.              *)
TryNextEntry(t) ==
  /\ idx' = [idx EXCEPT ![t] = NextEntry(idx[t])]
  /\ Goto(t, "probe")
  /\ UNCHANGED <<op, ret>>

(* The entry belongs to the key: go on to its value.                       *)
Found(t) ==
  /\ Goto(t, "value")
  /\ UNCHANGED <<op, idx, ret>>

(* The call returns r; its locals are gone.                                *)
Return(t, r) ==
  /\ ret' = [ret EXCEPT ![t] = r]
  /\ op' = [op EXCEPT ![t] = NoOp]
  /\ idx' = [idx EXCEPT ![t] = 0]
  /\ Goto(t, "out")

(* probed_key = atom_load(m_entries[idx].key), and the tests that follow.  *)
Probe(t) ==
  /\ pc[t] = "probe"
  /\ LET probed == keys[idx[t]] IN
       \/ probed = op[t].key /\ Found(t)
       \/ probed \notin {op[t].key, 0} /\ TryNextEntry(t)
       \/ probed = 0 /\ op[t].kind = "get" /\ Return(t, 0)
       \/ probed = 0 /\ op[t].kind # "get" /\ Goto(t, "claim") /\ UNCHANGED <<op, idx, ret>>
  /\ UNCHANGED table

(* atom_CAS(m_entries[idx].key, &ref, key) with ref = 0: the winner of a   *)
(* free entry, and a thread that lost it to its own key, go on.            *)
Claimed_Stored(k, key) == key
Claimed(k, key) == IF k = 0 THEN key ELSE k

StolenByOther_NotTested(t) == keys[idx[t]] # 0
StolenByOther(t) == keys[idx[t]] \notin {0, op[t].key}

Claim(t) ==
  /\ pc[t] = "claim"
  /\ keys' = [keys EXCEPT ![idx[t]] = Claimed(@, op[t].key)]
  /\ IF StolenByOther(t) THEN TryNextEntry(t) ELSE Found(t)
  /\ UNCHANGED values

(* The last step of a call, on the entry of its key.                       *)
Store(t) ==
  /\ op[t].kind = "set"
  /\ values' = [values EXCEPT ![idx[t]] = op[t].item]
  /\ Return(t, ret[t])

Load(t) ==
  /\ op[t].kind = "get"
  /\ Return(t, values[idx[t]])
  /\ UNCHANGED values

(* add_item's CAS from 0, so that it never replaces an item.               *)
Unset_Always(v) == TRUE
Unset(v) == v = 0

AddIfUnset(t) ==
  /\ op[t].kind = "add"
  /\ IF Unset(values[idx[t]])
     THEN values' = [values EXCEPT ![idx[t]] = op[t].item] /\ Return(t, 1)
     ELSE UNCHANGED values /\ Return(t, 0)

UseValue(t) ==
  /\ pc[t] = "value"
  /\ Store(t) \/ Load(t) \/ AddIfUnset(t)
  /\ UNCHANGED keys

Step(t) == Probe(t) \/ Claim(t) \/ UseValue(t)

Next == \E t \in Thread : (\E o \in Operation : Call(t, o)) \/ Step(t)

Spec == Init /\ [][Next]_vars

(* A call is run to its end by the scheduler; no thread waits for another. *)
FairSpec == Spec /\ \A t \in Thread : WF_vars(Step(t))

-----------------------------------------------------------------------------
TypeOK ==
  /\ keys \in [Entry -> Key \cup {0}]
  /\ values \in [Entry -> Item \cup {0}]
  /\ pc \in [Thread -> {"out", "probe", "claim", "value"}]
  /\ op \in [Thread -> Operation \cup {NoOp}]
  /\ idx \in [Thread -> Entry]
  /\ ret \in [Thread -> Item \cup {0, 1}]
  /\ \A t \in Thread : /\ pc[t] # "out" => op[t] \in Operation
                       /\ pc[t] = "claim" => op[t].kind # "get"

(* A key never gets two entries, however many threads race to insert it.   *)
NoDuplicateKeys ==
  \A d, e \in Entry : keys[d] # 0 /\ keys[d] = keys[e] => d = e

(* An entry, once claimed, keeps its key: what a thread has read about a   *)
(* key stays true (the comment on failed_load in verif_lockfree_linsearch).*)
KeysArePermanent == [][\A e \in Entry : keys[e] # 0 => keys'[e] = keys[e]]_keys

(* A search never comes back to where it began: it ends before it has seen *)
(* every entry.                                                            *)
NoWrapAround ==
  [][\A t \in Thread :
       pc[t] # "out" /\ pc'[t] # "out" /\ idx'[t] # idx[t] => idx'[t] # Home(op[t].key)]_vars

(* The map the table stands for.                                           *)
Map == [k \in Key |-> IF \E e \in Entry : keys[e] = k
                      THEN values[CHOOSE e \in Entry : keys[e] = k]
                      ELSE 0]

Atomic == INSTANCE AtomicMap WITH map <- Map, pending <- {t \in Thread : pc[t] # "out"}

(* set_item, get_item and add_item are linearizable: each takes effect in  *)
(* a single step of its own, get_item also when it finds no entry.         *)
ImplementsMap == Atomic!Spec

(* Every call returns, whatever the other threads do.                      *)
CallsReturn == \A t \in Thread : []<>(pc[t] = "out")
=============================================================================
